---- MODULE Spec2Model ----
(***************************************************************************)
(* Model of the resilient request pipeline of the Digikala SDK:            *)
(*   - DefaultCircuitBreaker            (src/src/implementations.py)       *)
(*   - BaseService._request, _execute_request, _execute_with_retry,        *)
(*     _calculate_retry_delay, _raise_for_status (src/src/services/base.py)*)
(*   - DefaultValidator, MemoryCacheStrategy, AioCacheAdapter,             *)
(*     generate_cache_key               (src/src/implementations.py)       *)
(* Time is a natural-number clock (seconds); delays and thresholds are     *)
(* integers.                                                               *)
(***************************************************************************)
EXTENDS Integers, Sequences, FiniteSets, TLC

(***************************************************************************)
(* Bounds of the model                                                     *)
(***************************************************************************)
NumCallers == 2
MaxCalls == 4
MaxTime == 3
MaxThreshold == 2
MaxTimeout == 2
MaxRetries == 2
MaxDelay == 2
MaxBackoff == 2
MaxRequests == 2

Callers == 1..NumCallers

\* Optional[float] = None for _last_failure_time
NoTime == -1

\* asyncio.Lock() that nobody holds
NoHolder == 0

VARIABLES
    \* ---- DefaultCircuitBreaker ----
    cb,                 \* [state, failure_count, success_count, last_failure_time]
    failure_threshold,  \* self._failure_threshold
    recovery_timeout,   \* self._recovery_timeout
    success_threshold,  \* self._success_threshold
    now,                \* time.time()
    pc,                 \* per caller of call(): "idle" | "running" (awaiting func)
    admitted_in,        \* per caller: the breaker's state when its call passed admission
    lock,               \* self._lock: the caller that holds it, NoHolder if it is free
    invoked,            \* number of times the wrapped func was invoked
    ncalls,             \* number of operations issued on the breaker
    last_op,            \* the last operation that acted on the breaker
    prev,               \* [cb, now, invoked] before the last operation, and its locked
    streak,             \* failures recorded since the last recorded success
    \* ---- BaseService ----
    max_retries,        \* self.config.max_retries
    retry_delay,        \* self.config.retry_delay
    retry_backoff,      \* self.config.retry_backoff
    cache_strategy,     \* the class of self.cache_strategy, "None" if there is none
    cache,              \* what the cache backend holds: cache key -> payload
    rpc,                \* position of the request in flight in _request
    req,                \* [method, endpoint, params] of the request in flight
    attempt,            \* _execute_with_retry: attempt
    last_exception,     \* _execute_with_retry: last_exception
    sleep_for,          \* argument of the asyncio.sleep in progress
    result,             \* the typed result of request_fn
    outcome,            \* how the last _request ended
    log,                \* what the request in flight has done so far
    nrequests,          \* number of _request calls started
    previous,           \* the _request call before the one in flight
    svc_streak,         \* consecutive failed attempts of request_fn
    svc_quiet,          \* seconds slept since the last failed attempt
    \* ---- functions called on their own ----
    call,               \* the last direct call: [fn, arg, out, value]
    \* ---- DigikalaClient ----
    client,             \* [fields, last_op, before, raised, returned]
    \* ---- RateLimiter ----
    limiter             \* [impl, max_rate, level, caller, last_op, full, returned, ncalls]

bstate == <<cb, failure_threshold, recovery_timeout, success_threshold,
            pc, admitted_in, lock, invoked, ncalls, last_op, prev, streak>>

bvars == <<bstate, now>>

rconfig == <<max_retries, retry_delay, retry_backoff, cache_strategy>>

rvars == <<rconfig, cache, rpc, req, attempt, last_exception, sleep_for,
           result, outcome, log, nrequests, previous, svc_streak, svc_quiet>>

\* _request: "self.cache_strategy is not None"
cache_enabled == cache_strategy # "None"

vars == <<bstate, now, rvars, call, client, limiter>>

(***************************************************************************)
(* DefaultCircuitBreaker: pure parts                                       *)
(***************************************************************************)

\* DefaultCircuitBreaker.__init__
NewBreaker ==
    [state |-> "CLOSED", failure_count |-> 0, success_count |-> 0,
     last_failure_time |-> NoTime]

\* mutation of _should_attempt_reset: ">" for ">="
should_attempt_reset_strict(b, t) ==
    IF b.last_failure_time = NoTime
    THEN TRUE
    ELSE (t - b.last_failure_time) > recovery_timeout

\* DefaultCircuitBreaker._should_attempt_reset
should_attempt_reset(b, t) ==
    IF b.last_failure_time = NoTime
    THEN TRUE
    ELSE (t - b.last_failure_time) >= recovery_timeout

\* mutation of record_success: closing leaves success_count as it is
record_success_keeps_successes(b) ==
    IF b.state = "HALF_OPEN"
    THEN LET s == b.success_count + 1 IN
         IF s >= success_threshold
         THEN [b EXCEPT !.state = "CLOSED", !.failure_count = 0, !.success_count = s]
         ELSE [b EXCEPT !.success_count = s]
    ELSE IF b.state = "CLOSED"
    THEN [b EXCEPT !.failure_count = 0]
    ELSE b

\* mutation of record_success: a success counts in OPEN as in HALF_OPEN
record_success_counts_in_open(b) ==
    IF b.state \in {"HALF_OPEN", "OPEN"}
    THEN LET s == b.success_count + 1 IN
         IF s >= success_threshold
         THEN [b EXCEPT !.state = "CLOSED", !.failure_count = 0, !.success_count = 0]
         ELSE [b EXCEPT !.success_count = s]
    ELSE IF b.state = "CLOSED"
    THEN [b EXCEPT !.failure_count = 0]
    ELSE b

\* mutation of record_success: a success in CLOSED leaves failure_count
record_success_no_reset(b) ==
    IF b.state = "HALF_OPEN"
    THEN LET s == b.success_count + 1 IN
         IF s >= success_threshold
         THEN [b EXCEPT !.state = "CLOSED", !.failure_count = 0, !.success_count = 0]
         ELSE [b EXCEPT !.success_count = s]
    ELSE b

\* mutation of record_success: closing leaves failure_count as it was
record_success_keeps_failures(b) ==
    IF b.state = "HALF_OPEN"
    THEN LET s == b.success_count + 1 IN
         IF s >= success_threshold
         THEN [b EXCEPT !.state = "CLOSED", !.success_count = 0]
         ELSE [b EXCEPT !.success_count = s]
    ELSE IF b.state = "CLOSED"
    THEN [b EXCEPT !.failure_count = 0]
    ELSE b

\* DefaultCircuitBreaker.record_success
record_success(b) ==
    IF b.state = "HALF_OPEN"
    THEN LET s == b.success_count + 1 IN
         IF s >= success_threshold
         THEN [b EXCEPT !.state = "CLOSED", !.failure_count = 0, !.success_count = 0]
         ELSE [b EXCEPT !.success_count = s]
    ELSE IF b.state = "CLOSED"
    THEN [b EXCEPT !.failure_count = 0]
    ELSE b

\* mutation of record_failure: ">" for ">=" at the threshold
record_failure_late(b, t) ==
    LET b1 == [b EXCEPT !.last_failure_time = t] IN
    IF b1.state = "HALF_OPEN"
    THEN [b1 EXCEPT !.state = "OPEN", !.failure_count = failure_threshold]
    ELSE IF b1.state = "CLOSED"
    THEN LET f == b1.failure_count + 1 IN
         IF f > failure_threshold
         THEN [b1 EXCEPT !.failure_count = f, !.state = "OPEN"]
         ELSE [b1 EXCEPT !.failure_count = f]
    ELSE b1

\* mutation of record_failure: the timestamp is taken only in CLOSED
record_failure_stale_time(b, t) ==
    IF b.state = "HALF_OPEN"
    THEN [b EXCEPT !.state = "OPEN", !.failure_count = failure_threshold]
    ELSE IF b.state = "CLOSED"
    THEN LET f == b.failure_count + 1 IN
         IF f >= failure_threshold
         THEN [b EXCEPT !.failure_count = f, !.state = "OPEN", !.last_failure_time = t]
         ELSE [b EXCEPT !.failure_count = f, !.last_failure_time = t]
    ELSE [b EXCEPT !.last_failure_time = t]

\* DefaultCircuitBreaker.record_failure
record_failure(b, t) ==
    LET b1 == [b EXCEPT !.last_failure_time = t] IN
    IF b1.state = "HALF_OPEN"
    THEN [b1 EXCEPT !.state = "OPEN", !.failure_count = failure_threshold]
    ELSE IF b1.state = "CLOSED"
    THEN LET f == b1.failure_count + 1 IN
         IF f >= failure_threshold
         THEN [b1 EXCEPT !.failure_count = f, !.state = "OPEN"]
         ELSE [b1 EXCEPT !.failure_count = f]
    ELSE b1

\* mutation of call(): after the timeout the call is let through but the
\* state stays OPEN
call_admission_stays_open(b, t) ==
    IF b.state = "OPEN"
    THEN [cb |-> b, admitted |-> should_attempt_reset(b, t)]
    ELSE [cb |-> b, admitted |-> TRUE]

\* DefaultCircuitBreaker.call, the block under "async with self._lock":
\* the breaker after the admission check, and whether the call goes on to
\* the wrapped function (admitted) or raises CircuitBreakerOpenError.
call_admission(b, t) ==
    IF b.state = "OPEN"
    THEN IF should_attempt_reset(b, t)
         THEN [cb |-> [b EXCEPT !.state = "HALF_OPEN", !.success_count = 0],
               admitted |-> TRUE]
         ELSE [cb |-> b, admitted |-> FALSE]
    ELSE [cb |-> b, admitted |-> TRUE]

(***************************************************************************)
(* DefaultCircuitBreaker: operations                                       *)
(***************************************************************************)

BreakerInit ==
    /\ cb = NewBreaker
    /\ failure_threshold \in 1..MaxThreshold
    /\ success_threshold \in 1..MaxThreshold
    /\ recovery_timeout \in 1..MaxTimeout
    /\ now = 0
    /\ pc = [c \in Callers |-> "idle"]
    /\ admitted_in = [c \in Callers |-> "none"]
    /\ lock = NoHolder
    /\ invoked = 0
    /\ ncalls = 0
    /\ last_op = "init"
    /\ prev = [cb |-> NewBreaker, now |-> 0, invoked |-> 0, locked |-> FALSE,
               admitted_in |-> "none"]
    /\ streak = 0

\* what the last operation started from, whether it read and wrote the
\* breaker's fields inside "async with self._lock", and, for the end of a
\* call, the breaker's state when that call passed admission
Snapshot(locked, admitted) ==
    [cb |-> cb, now |-> now, invoked |-> invoked, locked |-> locked,
     admitted_in |-> admitted]

BreakerConfigUnchanged ==
    UNCHANGED <<failure_threshold, recovery_timeout, success_threshold>>

\* mutation of the scope of "async with self._lock": the block extends over
\* the wrapped function
lock_after_admission_kept(c, admitted) == IF admitted THEN c ELSE NoHolder

\* call(): who holds the lock when the "async with self._lock" block has
\* ended, by the raise or before the wrapped function is awaited
lock_after_admission(c, admitted) == NoHolder

\* call(): the lock is taken, the state is checked, and the call either
\* starts the wrapped function or raises CircuitBreakerOpenError.  counted:
\* the call is one of the MaxCalls operations of a bounded run.
Admission(c, counted) ==
    /\ pc[c] = "idle"
    /\ lock = NoHolder
    /\ counted => ncalls < MaxCalls
    /\ LET r == call_admission(cb, now) IN
        /\ cb' = r.cb
        /\ IF r.admitted
           THEN /\ pc' = [pc EXCEPT ![c] = "running"]
                /\ lock' = lock_after_admission(c, TRUE)
                /\ admitted_in' = [admitted_in EXCEPT ![c] = r.cb.state]
                /\ invoked' = IF counted THEN invoked + 1 ELSE invoked
                /\ last_op' = "admit"
           ELSE /\ pc' = pc
                /\ lock' = lock_after_admission(c, FALSE)
                /\ admitted_in' = admitted_in
                /\ invoked' = invoked
                /\ last_op' = "reject"
    /\ ncalls' = IF counted THEN ncalls + 1 ELSE ncalls
    /\ prev' = Snapshot(TRUE, "none")
    /\ UNCHANGED <<now, streak, rvars, call, client, limiter>>
    /\ BreakerConfigUnchanged

CallAdmit(c) == Admission(c, TRUE)

\* call(): the wrapped function returns; record_success() runs, after the
\* "async with self._lock" block was left.
CallSucceed(c) ==
    /\ pc[c] = "running"
    /\ cb' = record_success(cb)
    /\ pc' = [pc EXCEPT ![c] = "idle"]
    /\ admitted_in' = [admitted_in EXCEPT ![c] = "none"]
    /\ last_op' = "success"
    /\ prev' = Snapshot(FALSE, admitted_in[c])
    /\ streak' = 0
    /\ UNCHANGED <<now, lock, invoked, ncalls, rvars, call, client, limiter>>
    /\ BreakerConfigUnchanged

\* call(): the wrapped function raises; record_failure() runs, after the
\* "async with self._lock" block was left; the exception is re-raised.
CallFail(c) ==
    /\ pc[c] = "running"
    /\ cb' = record_failure(cb, now)
    /\ pc' = [pc EXCEPT ![c] = "idle"]
    /\ admitted_in' = [admitted_in EXCEPT ![c] = "none"]
    /\ last_op' = "failure"
    /\ prev' = Snapshot(FALSE, admitted_in[c])
    /\ streak' = IF streak < failure_threshold THEN streak + 1 ELSE streak
    /\ UNCHANGED <<now, lock, invoked, ncalls, rvars, call, client, limiter>>
    /\ BreakerConfigUnchanged

\* record_success() called directly on the breaker (public method, takes
\* no lock)
RecordSuccess ==
    /\ ncalls < MaxCalls
    /\ cb' = record_success(cb)
    /\ last_op' = "success"
    /\ prev' = Snapshot(FALSE, "none")
    /\ streak' = 0
    /\ ncalls' = ncalls + 1
    /\ UNCHANGED <<now, pc, admitted_in, lock, invoked, rvars, call, client, limiter>>
    /\ BreakerConfigUnchanged

\* record_failure() called directly on the breaker (public method, takes
\* no lock)
RecordFailure ==
    /\ ncalls < MaxCalls
    /\ cb' = record_failure(cb, now)
    /\ last_op' = "failure"
    /\ prev' = Snapshot(FALSE, "none")
    /\ streak' = IF streak < failure_threshold THEN streak + 1 ELSE streak
    /\ ncalls' = ncalls + 1
    /\ UNCHANGED <<now, pc, admitted_in, lock, invoked, rvars, call, client, limiter>>
    /\ BreakerConfigUnchanged

\* time.time() advances
Advance ==
    /\ now' = now + 1
    /\ UNCHANGED <<cb, pc, admitted_in, lock, invoked, ncalls, last_op, prev, streak,
                   rvars, call, client, limiter>>
    /\ BreakerConfigUnchanged

Tick ==
    /\ now < MaxTime
    /\ Advance

(***************************************************************************)
(* BaseService: values                                                     *)
(***************************************************************************)

\* status_code=None of DigikalaAPIError
NoStatus == -1
\* retry_after=None of RateLimitError
NoHint == -1

\* DigikalaConfig defaults
DefaultMaxRetries == 3
DefaultRetryDelay == 1
DefaultRetryBackoff == 2
\* max_retries of the test fixture
FixtureMaxRetries == 2
retry_status_codes == {429, 500, 502, 503, 504}

\* DefaultCircuitBreaker.__init__ defaults
DefaultFailureThreshold == 5
DefaultRecoveryTimeout == 60
DefaultSuccessThreshold == 2

ALLOWED_HTTP_METHODS == {"GET", "POST", "PUT", "DELETE", "PATCH", "HEAD", "OPTIONS"}

\* the method arguments the callers pass
MethodInputs == ALLOWED_HTTP_METHODS \cup {"get", "TRACE"}

\* str.upper() on the method arguments
upper(m) ==
    CASE m = "get" -> "GET"
      [] m = "post" -> "POST"
      [] OTHER -> m

\* A Python str is the sequence of its characters; NUL is the character "\x00"
NUL == "NUL"

\* the endpoint arguments the callers pass
EndpointInputs ==
    { <<"/", "p">>, <<>>, <<"p">>,
      <<"/", ".", ".", "/", "p">>,
      <<"/", "/", "p">>,
      <<"/", "p", NUL>> }

\* str.startswith
startswith(str, ch) == Len(str) > 0 /\ str[1] = ch

\* "pat in str"
Contains(str, pat) ==
    \E i \in 1..(Len(str) - Len(pat) + 1) : SubSeq(str, i, i + Len(pat) - 1) = pat

UpperCase ==
    <<"A", "B", "C", "D", "E", "F", "G", "H", "I", "J", "K", "L", "M",
      "N", "O", "P", "Q", "R", "S", "T", "U", "V", "W", "X", "Y", "Z">>

LowerCase ==
    <<"a", "b", "c", "d", "e", "f", "g", "h", "i", "j", "k", "l", "m",
      "n", "o", "p", "q", "r", "s", "t", "u", "v", "w", "x", "y", "z">>

\* str.lower()
lower(str) ==
    [i \in 1..Len(str) |->
        IF \E j \in 1..Len(UpperCase) : UpperCase[j] = str[i]
        THEN LowerCase[CHOOSE j \in 1..Len(UpperCase) : UpperCase[j] = str[i]]
        ELSE str[i]]

\* ord() of the characters that occur in dictionary keys
ord(c) ==
    IF \E j \in 1..Len(LowerCase) : LowerCase[j] = c
    THEN 96 + (CHOOSE j \in 1..Len(LowerCase) : LowerCase[j] = c)
    ELSE IF \E j \in 1..Len(UpperCase) : UpperCase[j] = c
    THEN 64 + (CHOOSE j \in 1..Len(UpperCase) : UpperCase[j] = c)
    ELSE CASE c = "." -> 46
           [] c = "/" -> 47
           [] c = "[" -> 91
           [] c = "]" -> 93
           [] OTHER -> 0

\* str.__lt__: comparison by code points
RECURSIVE str_less(_, _)
str_less(a, b) ==
    IF a = <<>> THEN b # <<>>
    ELSE IF b = <<>> THEN FALSE
    ELSE IF a[1] = b[1] THEN str_less(Tail(a), Tail(b))
    ELSE ord(a[1]) < ord(b[1])

\* The values of the params argument (Optional[Dict[str, Any]]): None, str,
\* dict (its items in insertion order) and list (its items under the keys
\* "[0]", "[1]", ... that _check_value gives them)
Item(k, v) == [key |-> k, value |-> v]
PyNone == [t |-> "None", s |-> <<>>, items |-> <<>>]
PyStr(s) == [t |-> "str", s |-> s, items |-> <<>>]
PyDict(items) == [t |-> "dict", s |-> <<>>, items |-> items]
PyList(values) ==
    [t |-> "list", s |-> <<>>,
     items |-> [i \in 1..Len(values) |->
                   Item(<<"[", ToString(i - 1), "]">>, values[i])]]

\* bool(v) for None and dict
truthy(v) ==
    \/ v.t = "dict" /\ v.items # <<>>
    \/ v.t = "str" /\ v.s # <<>>

\* response.headers.get("Retry-After") is None
NoHeader == PyNone

Digits == <<"0", "1", "2", "3", "4", "5", "6", "7", "8", "9">>
IsDigit(c) == \E d \in 1..Len(Digits) : Digits[d] = c
DigitValue(c) == (CHOOSE d \in 1..Len(Digits) : Digits[d] = c) - 1

\* str.strip() of blanks
RECURSIVE strip(_)
strip(str) ==
    IF str # <<>> /\ Head(str) = " " THEN strip(Tail(str))
    ELSE IF str # <<>> /\ str[Len(str)] = " " THEN strip(SubSeq(str, 1, Len(str) - 1))
    ELSE str

\* the value of a run of decimal digits
RECURSIVE DecimalValue(_)
DecimalValue(ds) ==
    IF ds = <<>> THEN 0
    ELSE 10 * DecimalValue(SubSeq(ds, 1, Len(ds) - 1)) + DigitValue(ds[Len(ds)])

\* int(text) of a str: blanks around, an optional sign, decimal digits;
\* anything else raises ValueError
int(text) ==
    LET body == strip(text)
        signed == body # <<>> /\ Head(body) \in {"+", "-"}
        ds == IF signed THEN Tail(body) ELSE body
    IN IF ds # <<>> /\ \A i \in 1..Len(ds) : IsDigit(ds[i])
       THEN [exc |-> "None",
             value |-> IF signed /\ Head(body) = "-"
                       THEN 0 - DecimalValue(ds) ELSE DecimalValue(ds)]
       ELSE [exc |-> "ValueError", value |-> 0]

\* the params arguments the callers pass
ParamsAB == PyDict(<< Item(<<"a">>, PyStr(<<"1">>)), Item(<<"b">>, PyStr(<<"2">>)) >>)
ParamsBA == PyDict(<< Item(<<"b">>, PyStr(<<"2">>)), Item(<<"a">>, PyStr(<<"1">>)) >>)

ParamInputs ==
    { PyNone, PyDict(<<>>), ParamsAB, ParamsBA,
      PyDict(<< Item(<<"q">>, PyStr(<<".", ".", "/", "x">>)) >>),
      PyDict(<< Item(<<"f">>,
                     PyDict(<< Item(<<"n">>,
                                    PyList(<< PyStr(<<"o", "k">>),
                                              PyStr(<<"<", "S", "c", "r", "i", "p", "t">>)
                                           >>)) >>)) >>) }

\* an exception instance: class, status_code, retry_after
Err(kind, status, hint) == [kind |-> kind, status_code |-> status, retry_after |-> hint]

NoError == Err("None", NoStatus, NoHint)

\* the subclasses of DigikalaAPIError (and the class itself)
DigikalaAPIErrors ==
    {"DigikalaAPIError", "BadRequestError", "UnauthorizedError", "ForbiddenError",
     "NotFoundError", "RateLimitError", "ServerError", "TimeoutError",
     "ConnectionError", "ValidationError", "APIStatusError",
     "CircuitBreakerOpenError"}

\* what self.client.request does: raises, or returns a response
Resp(kind, status, header, body) ==
    [kind |-> kind, status_code |-> status, retry_after_header |-> header, body |-> body]

NoResp == Resp("none", 0, NoHeader, "none")

\* values of a Retry-After header that is present, in the request runs
RetryAfterHeaders == {PyStr(<<"0">>), PyStr(<<"3">>)}

Responses ==
    { Resp("timeout", 0, NoHeader, "none"),
      Resp("connect", 0, NoHeader, "none"),
      Resp("http_error", 0, NoHeader, "none"),
      Resp("circuit_open", 0, NoHeader, "none") }
    \cup { Resp("response", 200, NoHeader, b) : b \in {"v1", "invalid"} }
    \cup { Resp("response", st, NoHeader, "error") : st \in {404, 503} }
    \cup { Resp("response", 429, h, "error") : h \in {NoHeader} \cup RetryAfterHeaders }

\* the answers of the transport in the runs of several requests
RequestResponses ==
    { Resp("timeout", 0, NoHeader, "none"),
      Resp("response", 503, NoHeader, "error") }
    \cup { Resp("response", 200, NoHeader, b) : b \in {"v1", "v2"} }

\* Payloads are "v1", "v2" as the API sends them, "dump_v1", "dump_v2" as
\* model_dump() writes them (by field name), "dump_v0" as an older version of
\* the response model wrote it.  A typed result is named after its payload.
\* result.model_dump()
model_dump(r) ==
    CASE r = "v1" -> "dump_v1"
      [] r = "v2" -> "dump_v2"
      [] OTHER -> "none"

\* response_model(**data): the typed result, "none" when validation fails
response_model(data) ==
    CASE data \in {"v1", "dump_v1"} -> "v1"
      [] data \in {"v2", "dump_v2"} -> "v2"
      [] OTHER -> "none"

\* response_model(**data): does the payload validate
response_model_ok(data) == response_model(data) # "none"

\* an entry of the request's log
Ev(ev, n, resp) == [ev |-> ev, n |-> n, resp |-> resp]

\* how a _request call ended
Pending == [status |-> "pending", value |-> "none", error |-> NoError]
Returned(v) == [status |-> "returned", value |-> v, error |-> NoError]
Raised(e) == [status |-> "raised", value |-> "none", error |-> e]

NoRequest == [method |-> "none", endpoint |-> <<>>, params |-> PyNone]

(***************************************************************************)
(* BaseService: pure parts                                                 *)
(***************************************************************************)

RECURSIVE Pow(_, _)
Pow(b, n) == IF n = 0 THEN 1 ELSE b * Pow(b, n - 1)

\* mutation of _calculate_retry_delay: linear instead of exponential
calculate_retry_delay_linear(att) == retry_delay * retry_backoff * att

\* BaseService._calculate_retry_delay
calculate_retry_delay(att) == retry_delay * Pow(retry_backoff, att)

\* sorted(d.items()) of json.dumps(sort_keys=True), by insertion
RECURSIVE insert_item(_, _)
insert_item(sorted, it) ==
    IF sorted = <<>> THEN <<it>>
    ELSE IF str_less(it.key, sorted[1].key) THEN <<it>> \o sorted
    ELSE <<sorted[1]>> \o insert_item(Tail(sorted), it)

RECURSIVE sort_keys(_)
sort_keys(items) ==
    IF items = <<>> THEN <<>>
    ELSE insert_item(sort_keys(Tail(items)), items[1])

\* json.dumps(v, sort_keys=True): the value with the items of every dict in
\* key order, which is what the JSON text spells out
RECURSIVE json_dumps(_)
json_dumps(v) ==
    IF v.t = "dict"
    THEN LET srt == sort_keys(v.items) IN
         [v EXCEPT !.items =
             [i \in 1..Len(srt) |-> Item(srt[i].key, json_dumps(srt[i].value))]]
    ELSE IF v.t = "list"
    THEN [v EXCEPT !.items =
             [i \in 1..Len(v.items) |->
                 Item(v.items[i].key, json_dumps(v.items[i].value))]]
    ELSE v

\* mutation of generate_cache_key: json.dumps without sort_keys
generate_cache_key_unsorted(endpoint, params) ==
    <<endpoint, "?", IF truthy(params) THEN params ELSE PyDict(<<>>)>>

\* generate_cache_key: the string that is hashed, "{endpoint}?{params_str}"
generate_cache_key(endpoint, params) ==
    <<endpoint, "?", json_dumps(IF truthy(params) THEN params ELSE PyDict(<<>>))>>

\* DefaultValidator.MAX_PARAM_KEY_LENGTH, MAX_PARAM_VALUE_LENGTH
MAX_PARAM_KEY_LENGTH == 512
MAX_PARAM_VALUE_LENGTH == 200000

\* DefaultValidator.validate_params: suspicious_patterns
suspicious_patterns ==
    { <<".", ".", "/">>,
      <<":", "/", "/">>,
      <<"<", "s", "c", "r", "i", "p", "t">>,
      <<"j", "a", "v", "a", "s", "c", "r", "i", "p", "t", ":">>,
      <<NUL>> }

\* DefaultValidator.validate_params._check_value: does it raise ValueError
RECURSIVE check_value(_, _)

\* mutation of _check_value: the items of a list are not visited
check_value_skips_lists(key, value) ==
    \/ Len(key) > MAX_PARAM_KEY_LENGTH
    \/ /\ value.t = "str"
       /\ \/ Len(value.s) > MAX_PARAM_VALUE_LENGTH
          \/ \E pattern \in suspicious_patterns : Contains(lower(value.s), pattern)
    \/ /\ value.t = "dict"
       /\ \E i \in 1..Len(value.items) :
             check_value(value.items[i].key, value.items[i].value)

check_value(key, value) ==
    \/ Len(key) > MAX_PARAM_KEY_LENGTH
    \/ /\ value.t = "str"
       /\ \/ Len(value.s) > MAX_PARAM_VALUE_LENGTH
          \/ \E pattern \in suspicious_patterns : Contains(lower(value.s), pattern)
    \/ /\ value.t \in {"dict", "list"}
       /\ \E i \in 1..Len(value.items) :
             check_value(value.items[i].key, value.items[i].value)

\* DefaultValidator.validate_params: the exception raised, NoError if none
validate_params(params) ==
    IF \E i \in 1..Len(params.items) :
          check_value(params.items[i].key, params.items[i].value)
    THEN Err("ValueError", NoStatus, NoHint)
    ELSE NoError

\* DefaultValidator.validate_endpoint: suspicious
suspicious == { <<".", ".", "/">>, <<"/", "/">>, <<NUL>> }

\* DefaultValidator.validate_endpoint: the exception raised, NoError if none
validate_endpoint(endpoint) ==
    IF ~startswith(endpoint, "/") THEN Err("ValueError", NoStatus, NoHint)
    ELSE IF \E pattern \in suspicious : Contains(endpoint, pattern)
    THEN Err("ValueError", NoStatus, NoHint)
    ELSE NoError

\* httpx.Response.is_success
is_success(resp) == resp.status_code >= 200 /\ resp.status_code < 300

\* Bodies of an error response: "error" is a JSON object with a message,
\* "error_no_message" a JSON object without one, "json_list" JSON that is
\* not an object, "html" text that is not JSON, "" the empty body.
\* response.json(): the type of the parsed value, or the exception raised
json(body) ==
    CASE body \in {"error", "error_no_message"} -> [exc |-> "None", t |-> "dict"]
      [] body = "json_list" -> [exc |-> "None", t |-> "list"]
      [] OTHER -> [exc |-> "JSONDecodeError", t |-> "None"]

\* what "except Exception" catches
ExceptionSubclasses == {"JSONDecodeError", "AttributeError", "ValueError"}

\* the try block of _raise_for_status: error_data, error_message, and the
\* exception that the except clause does not catch ("None" if there is none)
error_fields(resp) ==
    LET parsed == json(resp.body)
        text_or_code == IF resp.body = "" THEN "HTTP status_code" ELSE "text"
        exc == IF parsed.exc # "None" THEN parsed.exc
               ELSE IF parsed.t # "dict" THEN "AttributeError"
               ELSE "None"
    IN [error_data |-> IF parsed.exc # "None" THEN "None" ELSE resp.body,
        error_message |-> IF exc # "None" THEN text_or_code
                          ELSE IF resp.body = "error" THEN "message"
                          ELSE "text",
        escapes |-> IF exc \in ExceptionSubclasses \cup {"None"} THEN "None" ELSE exc]

\* BaseService._raise_for_status: the exception raised, NoError if none
raise_for_status(resp) ==
    IF is_success(resp) THEN NoError
    ELSE IF error_fields(resp).escapes # "None"
    THEN Err(error_fields(resp).escapes, NoStatus, NoHint)
    ELSE LET sc == resp.status_code IN
         CASE sc = 400 -> Err("BadRequestError", sc, NoHint)
           [] sc = 401 -> Err("UnauthorizedError", sc, NoHint)
           [] sc = 403 -> Err("ForbiddenError", sc, NoHint)
           [] sc = 404 -> Err("NotFoundError", sc, NoHint)
           [] sc = 429 ->
                LET retry_after == resp.retry_after_header IN
                IF ~truthy(retry_after) THEN Err("RateLimitError", sc, NoHint)
                ELSE IF int(retry_after.s).exc # "None"
                THEN Err(int(retry_after.s).exc, NoStatus, NoHint)
                ELSE Err("RateLimitError", sc, int(retry_after.s).value)
           [] sc >= 500 /\ sc < 600 -> Err("ServerError", sc, NoHint)
           [] OTHER -> Err("DigikalaAPIError", sc, NoHint)

\* BaseService._execute_request.request_fn, given what the transport did:
\* the exception it raises (NoError if none) and the value it returns
request_fn(resp) ==
    CASE resp.kind = "timeout" ->
            [exc |-> Err("httpx.TimeoutException", NoStatus, NoHint), value |-> "none"]
      [] resp.kind = "connect" ->
            [exc |-> Err("httpx.ConnectError", NoStatus, NoHint), value |-> "none"]
      [] resp.kind = "http_error" ->
            [exc |-> Err("httpx.HTTPError", NoStatus, NoHint), value |-> "none"]
      [] resp.kind = "circuit_open" ->
            [exc |-> Err("CircuitBreakerOpenError", NoStatus, NoHint), value |-> "none"]
      [] OTHER ->
            LET e == raise_for_status(resp) IN
            IF e # NoError THEN [exc |-> e, value |-> "none"]
            ELSE IF response_model_ok(resp.body)
            THEN [exc |-> NoError, value |-> response_model(resp.body)]
            ELSE [exc |-> Err("ValidationError", resp.status_code, NoHint),
                  value |-> "none"]

\* mutation of the retry test: one attempt short
Backoff_one_short(le, att) ==
    IF att + 1 < max_retries
    THEN [last_exception |-> le, next |-> "sleep", delay |-> calculate_retry_delay(att)]
    ELSE [last_exception |-> le, next |-> "raise", delay |-> 0]

\* mutation of the retry test: one sleep too many
Backoff_one_more(le, att) ==
    IF att <= max_retries
    THEN [last_exception |-> le, next |-> "sleep", delay |-> calculate_retry_delay(att)]
    ELSE [last_exception |-> le, next |-> "raise", delay |-> 0]

\* _execute_with_retry, the code after the except clauses
\* ("Retry logic for network errors")
Backoff(le, att) ==
    IF att < max_retries
    THEN [last_exception |-> le, next |-> "sleep", delay |-> calculate_retry_delay(att)]
    ELSE [last_exception |-> le, next |-> "raise", delay |-> 0]

\* mutation of the except clauses: a RateLimitError without a usable hint
\* ends the loop
handle_exception_rate_limit_raises(e, att) ==
    CASE e.kind = "httpx.TimeoutException" ->
            Backoff(Err("TimeoutError", NoStatus, NoHint), att)
      [] e.kind = "httpx.ConnectError" ->
            Backoff(Err("ConnectionError", NoStatus, NoHint), att)
      [] e.kind = "RateLimitError" ->
            IF (e.retry_after # NoHint /\ e.retry_after # 0) /\ att < max_retries
            THEN [last_exception |-> e, next |-> "sleep", delay |-> e.retry_after]
            ELSE [last_exception |-> e, next |-> "raise", delay |-> 0]
      [] e.kind \in DigikalaAPIErrors \ {"RateLimitError"} ->
            IF e.status_code \in retry_status_codes /\ att < max_retries
            THEN [last_exception |-> e, next |-> "sleep",
                  delay |-> calculate_retry_delay(att)]
            ELSE Backoff(e, att)
      [] OTHER ->
            Backoff(Err("DigikalaAPIError", NoStatus, NoHint), att)

\* _execute_with_retry, the except clauses for an exception e raised by
\* request_fn at attempt att: the new last_exception, whether the loop
\* sleeps and goes on or ends and raises, and the delay of the sleep
handle_exception(e, att) ==
    CASE e.kind = "httpx.TimeoutException" ->
            Backoff(Err("TimeoutError", NoStatus, NoHint), att)
      [] e.kind = "httpx.ConnectError" ->
            Backoff(Err("ConnectionError", NoStatus, NoHint), att)
      [] e.kind = "RateLimitError" ->
            IF (e.retry_after # NoHint /\ e.retry_after # 0) /\ att < max_retries
            THEN [last_exception |-> e, next |-> "sleep", delay |-> e.retry_after]
            ELSE Backoff(e, att)
      [] e.kind \in DigikalaAPIErrors \ {"RateLimitError"} ->
            IF e.status_code \in retry_status_codes /\ att < max_retries
            THEN [last_exception |-> e, next |-> "sleep",
                  delay |-> calculate_retry_delay(att)]
            ELSE Backoff(e, att)
      [] OTHER ->
            Backoff(Err("DigikalaAPIError", NoStatus, NoHint), att)

(***************************************************************************)
(* BaseService: the steps of _request                                      *)
(***************************************************************************)

\* mutation of the checks: the params are not handed to the validator
request_check_skips_params(method_upper, endpoint, params) ==
    IF method_upper \notin ALLOWED_HTTP_METHODS THEN Err("ValueError", NoStatus, NoHint)
    ELSE IF endpoint = <<>> THEN Err("ValueError", NoStatus, NoHint)
    ELSE IF ~startswith(endpoint, "/") THEN Err("ValueError", NoStatus, NoHint)
    ELSE NoError

\* _request, the checks before the first await: the exception raised,
\* NoError if none
request_check(method_upper, endpoint, params) ==
    IF method_upper \notin ALLOWED_HTTP_METHODS THEN Err("ValueError", NoStatus, NoHint)
    ELSE IF endpoint = <<>> THEN Err("ValueError", NoStatus, NoHint)
    ELSE IF ~startswith(endpoint, "/") THEN Err("ValueError", NoStatus, NoHint)
    ELSE IF truthy(params) THEN validate_params(params)
    ELSE NoError

\* mutation of the cache test: every method goes through the cache
uses_cache_any_method(method_upper) == cache_enabled

\* _request: 'method_upper == "GET" and self.cache_strategy is not None'
uses_cache(method_upper) == method_upper = "GET" /\ cache_enabled

\* _request: the first await after the checks
after_checks(method_upper) ==
    IF uses_cache(method_upper) THEN "cache_get" ELSE "acquire"

\* the classes of cache strategy a service is built with
CacheStrategies == {"None", "MemoryCacheStrategy", "AioCacheAdapter", "Custom"}

\* a get or set of the backend can fail behind these strategies
FallibleStrategies == {"AioCacheAdapter", "Custom"}

\* self.cache_strategy.get(cache_key): the exception raised (NoError if
\* none) and the value returned ("None" for None).  MemoryCacheStrategy reads
\* a dict, AioCacheAdapter.get returns None when the backend raises, another
\* implementation of the CacheStrategy protocol lets the exception out.
cache_strategy_get(cache_key, fails) ==
    IF fails
    THEN IF cache_strategy = "AioCacheAdapter"
         THEN [exc |-> NoError, value |-> "None"]
         ELSE [exc |-> Err("CacheBackendError", NoStatus, NoHint), value |-> "None"]
    ELSE [exc |-> NoError,
          value |-> IF cache_key \in DOMAIN cache THEN cache[cache_key] ELSE "None"]

\* mutation of the cache hit: a payload that fails validation is raised
on_cached_response_raises(cached_response) ==
    IF cached_response # "None" /\ response_model_ok(cached_response)
    THEN [next |-> "return", value |-> response_model(cached_response)]
    ELSE IF cached_response # "None"
    THEN [next |-> "raise", value |-> "none"]
    ELSE [next |-> "acquire", value |-> "none"]

\* _request: what follows the cache lookup, given cached_response
on_cached_response(cached_response) ==
    IF cached_response # "None" /\ response_model_ok(cached_response)
    THEN [next |-> "return", value |-> response_model(cached_response)]
    ELSE [next |-> "acquire", value |-> "none"]

(***************************************************************************)
(* BaseService: operations                                                 *)
(***************************************************************************)

\* no function called on its own yet
\* no instance was constructed
NoEnvelope == [status |-> NoStatus, data |-> "None"]

\* self._http_client is None; a service that was not constructed
NoTransport == 0

ServiceNames == {"products", "sellers", "brands"}

\* the client's fields at one moment: the transport in self._http_client,
\* how often aclose() was awaited on each transport created so far, and
\* the transport each cached service was constructed with
ClientFields(http_client, transports, services) ==
    [http_client |-> http_client, transports |-> transports, services |-> services]

\* DigikalaClient.__init__
NewFields == ClientFields(NoTransport, <<>>, [name \in ServiceNames |-> NoTransport])

NewClient ==
    [fields |-> NewFields, last_op |-> "__init__", before |-> NewFields,
     raised |-> "None", returned |-> NoTransport]

\* a rate limiter of the given class right after construction; level is
\* the number of tokens taken that have not drained yet
NewLimiter(impl, max_rate) ==
    [impl |-> impl, max_rate |-> max_rate, level |-> 0, caller |-> "idle",
     last_op |-> "__init__", full |-> FALSE, returned |-> "None", ncalls |-> 0]

NoCall == [fn |-> "none", arg |-> PyNone, out |-> NoError, value |-> NoEnvelope]

\* no _request call before this one
NoPrevious == [req |-> NoRequest, outcome |-> Pending, set_failed |-> FALSE]

\* a service with nothing in flight
NothingInFlight ==
    /\ rpc = "idle"
    /\ req = NoRequest
    /\ attempt = 0
    /\ last_exception = NoError
    /\ sleep_for = 0
    /\ result = "none"
    /\ outcome = Pending
    /\ log = <<>>
    /\ nrequests = 0
    /\ previous = NoPrevious
    /\ svc_streak = 0
    /\ svc_quiet = 0
    /\ call = NoCall
    /\ client = NewClient

\* no request in flight, and a limiter that was never called
RequestIdle ==
    /\ NothingInFlight
    /\ limiter = NewLimiter("NoOpRateLimiter", 0)

\* a breaker with the default thresholds, never called
BreakerUnused ==
    /\ now = 0
    /\ cb = NewBreaker
    /\ failure_threshold = DefaultFailureThreshold
    /\ recovery_timeout = DefaultRecoveryTimeout
    /\ success_threshold = DefaultSuccessThreshold
    /\ pc = [c \in Callers |-> "idle"]
    /\ admitted_in = [c \in Callers |-> "none"]
    /\ lock = NoHolder
    /\ invoked = 0
    /\ ncalls = 0
    /\ last_op = "init"
    /\ prev = [cb |-> NewBreaker, now |-> 0, invoked |-> 0, locked |-> FALSE,
               admitted_in |-> "none"]
    /\ streak = 0

\* BaseService.__init__ with any valid DigikalaConfig
RetryInit ==
    /\ max_retries \in 0..MaxRetries
    /\ retry_delay \in 1..MaxDelay
    /\ retry_backoff \in 1..MaxBackoff
    /\ cache_strategy \in {"None", "MemoryCacheStrategy"}
    /\ cache = <<>>
    /\ RequestIdle
    /\ BreakerUnused

\* BaseService.__init__ with the DigikalaConfig of the test fixture
RequestInit ==
    /\ max_retries = FixtureMaxRetries
    /\ retry_delay = DefaultRetryDelay
    /\ retry_backoff = DefaultRetryBackoff
    /\ cache_strategy \in CacheStrategies
    /\ cache = <<>>
    /\ RequestIdle
    /\ BreakerUnused

\* what a cache backend shared with other processes and earlier releases
\* can hold when the service is built: nothing, or for GET /p a payload
\* written by this release (dump_v1) or by an older one (dump_v0)
InitialCaches ==
    {<<>>} \cup { (generate_cache_key(<<"/", "p">>, PyNone) :> d) :
                     d \in {"dump_v1", "dump_v0"} }

\* BaseService.__init__ with the fixture's DigikalaConfig and any cache
InputInit ==
    /\ max_retries = FixtureMaxRetries
    /\ retry_delay = DefaultRetryDelay
    /\ retry_backoff = DefaultRetryBackoff
    /\ cache_strategy \in CacheStrategies
    /\ cache \in (IF cache_strategy = "None" THEN {<<>>} ELSE InitialCaches)
    /\ RequestIdle
    /\ BreakerUnused

\* _request up to its first await: the method, the endpoint and the params
\* are checked
StartRequest(m, e, p) ==
    /\ rpc = "idle"
    /\ nrequests < MaxRequests
    /\ nrequests' = nrequests + 1
    /\ previous' = [req |-> req, outcome |-> outcome,
                    set_failed |-> \E i \in 1..Len(log) : log[i].ev = "cache_set_error"]
    /\ LET method_upper == upper(m)
           exc == request_check(method_upper, e, p)
       IN
        /\ req' = [method |-> method_upper, endpoint |-> e, params |-> p]
        /\ IF exc # NoError
           THEN /\ rpc' = "idle"
                /\ outcome' = Raised(exc)
           ELSE /\ rpc' = after_checks(method_upper)
                /\ outcome' = Pending
    /\ attempt' = 0
    /\ last_exception' = NoError
    /\ sleep_for' = 0
    /\ result' = "none"
    /\ log' = <<>>
    /\ UNCHANGED <<rconfig, cache, svc_streak, svc_quiet, bstate, now, call, client, limiter>>

\* _request: await self.cache_strategy.get(cache_key), then
\* response_model(**cached_response) on a hit; fails: the backend raises
CacheGet(fails) ==
    /\ rpc = "cache_get"
    /\ fails => cache_strategy \in FallibleStrategies
    /\ LET cache_key == generate_cache_key(req.endpoint, req.params)
           got == cache_strategy_get(cache_key, fails)
           ev == Ev(IF fails THEN "cache_get_error" ELSE "cache_get", 0,
                    Resp("cached", 0, NoHeader, got.value))
       IN
        /\ log' = Append(log, ev)
        /\ IF got.exc # NoError
           THEN /\ rpc' = "idle"
                /\ outcome' = Raised(got.exc)
           ELSE LET c == on_cached_response(got.value) IN
                CASE c.next = "return" ->
                        /\ rpc' = "idle"
                        /\ outcome' = Returned(c.value)
                  [] c.next = "acquire" ->
                        /\ rpc' = "acquire"
                        /\ outcome' = outcome
                  [] OTHER ->
                        /\ rpc' = "idle"
                        /\ outcome' = Raised(Err("ValidationError", NoStatus, NoHint))
    /\ UNCHANGED <<rconfig, cache, req, attempt, last_exception, sleep_for,
                   result, nrequests, previous, svc_streak, svc_quiet, bstate, now, call, client, limiter>>

\* _request: await self.rate_limiter.acquire(); _execute_with_retry starts
Acquire ==
    /\ rpc = "acquire"
    /\ log' = Append(log, Ev("acquire", 0, NoResp))
    /\ rpc' = "request_fn"
    /\ attempt' = 0
    /\ last_exception' = NoError
    /\ UNCHANGED <<rconfig, cache, req, sleep_for, result, outcome, nrequests,
                   previous, svc_streak, svc_quiet, bstate, now, call, client, limiter>>

\* _execute_with_retry: one pass of the loop, from "await request_fn()"
\* (the transport answers resp) to the return, the raise or the start of
\* the sleep
Attempt(resp) ==
    /\ rpc = "request_fn"
    /\ LET r == request_fn(resp) IN
       IF r.exc = NoError
       THEN /\ result' = r.value
            /\ log' = Append(log, Ev("transport", attempt, resp))
            /\ svc_streak' = 0
            /\ svc_quiet' = svc_quiet
            /\ IF uses_cache(req.method)
               THEN rpc' = "cache_set" /\ outcome' = outcome
               ELSE rpc' = "idle" /\ outcome' = Returned(r.value)
            /\ UNCHANGED <<last_exception, sleep_for>>
       ELSE LET h == handle_exception(r.exc, attempt) IN
            /\ last_exception' = h.last_exception
            /\ svc_streak' = svc_streak + 1
            /\ svc_quiet' = 0
            /\ result' = result
            /\ IF h.next = "sleep"
               THEN /\ rpc' = "sleep"
                    /\ sleep_for' = h.delay
                    /\ outcome' = outcome
                    /\ log' = log \o << Ev("transport", attempt, resp),
                                        Ev("sleep", h.delay, NoResp) >>
               ELSE /\ rpc' = "idle"
                    /\ sleep_for' = sleep_for
                    /\ outcome' = Raised(h.last_exception)
                    /\ log' = Append(log, Ev("transport", attempt, resp))
    /\ UNCHANGED <<rconfig, cache, req, attempt, nrequests, previous, bstate, now, call, client, limiter>>

\* mutation of the loop: a retry goes back to the rate limiter
while_test_reacquires(n) == IF n <= max_retries THEN "acquire" ELSE "idle"

\* _execute_with_retry, "while attempt <= self.max_retries": where the
\* coroutine goes when attempt is n, into another pass of the loop or out of
\* it to the raise that ends the call
while_test(n) == IF n <= max_retries THEN "request_fn" ELSE "idle"

\* _execute_with_retry: asyncio.sleep returns, attempt += 1, and the test
\* of the while loop: another pass, or "raise last_exception" after the loop
Wake ==
    /\ rpc = "sleep"
    /\ svc_quiet' = svc_quiet + sleep_for
    /\ attempt' = attempt + 1
    /\ sleep_for' = 0
    /\ rpc' = while_test(attempt + 1)
    /\ outcome' = IF attempt + 1 <= max_retries THEN outcome
                  ELSE Raised(last_exception)
    /\ UNCHANGED <<rconfig, cache, req, last_exception, result, log,
                   nrequests, previous, svc_streak, bstate, now, call, client, limiter>>

\* mutation of set: the other entries are dropped
cache_strategy_set_alone(c, cache_key, value) == (cache_key :> value)

\* cache_strategy.set(key, value) when the backend works: the entry is
\* stored, overwriting
cache_strategy_set(c, cache_key, value) ==
    [k \in DOMAIN c \cup {cache_key} |-> IF k = cache_key THEN value ELSE c[k]]

\* _request: await self.cache_strategy.set(cache_key, result.model_dump())
\* and return result; fails: the backend raises, which AioCacheAdapter.set
\* swallows and another implementation of the protocol lets out
CacheSet(fails) ==
    /\ rpc = "cache_set"
    /\ fails => cache_strategy \in FallibleStrategies
    /\ LET cache_key == generate_cache_key(req.endpoint, req.params) IN
        cache' = IF fails THEN cache
                 ELSE cache_strategy_set(cache, cache_key, model_dump(result))
    /\ log' = Append(log, Ev(IF fails THEN "cache_set_error" ELSE "cache_set",
                             0, NoResp))
    /\ rpc' = "idle"
    /\ outcome' = IF fails /\ cache_strategy # "AioCacheAdapter"
                  THEN Raised(Err("CacheBackendError", NoStatus, NoHint))
                  ELSE Returned(result)
    /\ UNCHANGED <<rconfig, req, attempt, last_exception, sleep_for, result,
                   nrequests, previous, svc_streak, svc_quiet, bstate, now, call, client, limiter>>

\* the arguments of the _request calls in the runs of several requests
RequestMethods == {"GET", "POST"}
RequestEndpoints == { <<"/", "p">> }
RequestParams == {PyNone, ParamsAB, ParamsBA}

RequestNext ==
    \/ \E m \in RequestMethods, e \in RequestEndpoints, p \in RequestParams :
          StartRequest(m, e, p)
    \/ \E fails \in BOOLEAN : CacheGet(fails)
    \/ Acquire
    \/ \E resp \in RequestResponses : Attempt(resp)
    \/ Wake
    \/ \E fails \in BOOLEAN : CacheSet(fails)

\* a sequence of _request calls on one service
RequestSpec == RequestInit /\ [][RequestNext]_vars

\* the first _request call on a service
FirstRequest(m, e, p) ==
    /\ nrequests = 0
    /\ StartRequest(m, e, p)

RetryNext ==
    \/ \E m \in RequestMethods, e \in RequestEndpoints : FirstRequest(m, e, PyNone)
    \/ \E fails \in BOOLEAN : CacheGet(fails)
    \/ Acquire
    \/ \E resp \in Responses : Attempt(resp)
    \/ Wake
    \/ \E fails \in BOOLEAN : CacheSet(fails)

\* one _request call, for every configuration
RetrySpec == RetryInit /\ [][RetryNext]_vars

\* the steps of a _request call in flight: each of its awaits (the cache,
\* the limiter, the transport with its timeout, asyncio.sleep) completes and
\* the event loop resumes the coroutine
RequestStep ==
    \/ \E fails \in BOOLEAN : CacheGet(fails)
    \/ Acquire
    \/ \E resp \in Responses : Attempt(resp)
    \/ Wake
    \/ \E fails \in BOOLEAN : CacheSet(fails)

\* BaseService.__init__ with any max_retries and the default delays
RetryFairInit ==
    /\ max_retries \in 0..MaxRetries
    /\ retry_delay = DefaultRetryDelay
    /\ retry_backoff = DefaultRetryBackoff
    /\ cache_strategy \in {"None", "MemoryCacheStrategy"}
    /\ cache = <<>>
    /\ RequestIdle
    /\ BreakerUnused

\* one _request call for every max_retries, the request in flight always
\* resumed
RetryFairSpec == RetryFairInit /\ [][RetryNext]_vars /\ WF_vars(RequestStep)

InputNext ==
    \/ \E m \in MethodInputs, e \in EndpointInputs, p \in ParamInputs :
          FirstRequest(m, e, p)
    \/ \E fails \in BOOLEAN : CacheGet(fails)
    \/ Acquire
    \/ \E resp \in RequestResponses : Attempt(resp)
    \/ Wake
    \/ \E fails \in BOOLEAN : CacheSet(fails)

\* one _request call, for every argument and every cache
InputSpec == InputInit /\ [][InputNext]_vars

(***************************************************************************)
(* DefaultValidator.validate_params called on its own                      *)
(***************************************************************************)

\* nesting depth of the parameter trees
MaxDepth == 2

\* a str of n characters c
Repeat(c, n) == [i \in 1..n |-> c]

\* an int value of a parameter
PyInt == [t |-> "int", s |-> <<>>, items |-> <<>>]

\* the string values put into the trees: harmless ones, the five patterns
\* in several casings and positions, and near misses
StringInputs ==
    { <<"o", "k">>,
      <<>>,
      <<".", ".", "/">>,
      <<"a", ".", ".", "/", "E", "T", "C">>,
      <<"h", "t", "t", "p", ":", "/", "/", "x">>,
      <<"<", "S", "C", "R", "I", "P", "T", ">">>,
      <<"x", "<", "s", "c", "R", "i", "p", "t">>,
      <<"J", "a", "v", "a", "S", "c", "r", "i", "p", "t", ":", "h">>,
      <<"a", NUL, "b">>,
      <<".", ".">>,
      <<".", "/", ".">>,
      <<":", "/">>,
      <<"<", "s", "c", "r", "i", "p">>,
      <<"j", "a", "v", "a", "s", "c", "r", "i", "p", "t">> }

\* the values at the leaves of the trees
Leaves == {PyInt, PyNone} \cup {PyStr(str) : str \in StringInputs}

\* a value put one level deeper: in a map, in a map after a harmless item,
\* in a list, in a list after a harmless item
Wrap(v) ==
    { PyDict(<< Item(<<"k">>, v) >>),
      PyDict(<< Item(<<"k">>, PyStr(<<"o", "k">>)), Item(<<"m">>, v) >>),
      PyList(<< v >>),
      PyList(<< PyStr(<<"o", "k">>), v >>) }

\* the values of nesting depth at most d
RECURSIVE Trees(_)
Trees(d) ==
    IF d = 0 THEN Leaves
    ELSE Trees(d - 1) \cup UNION { Wrap(v) : v \in Trees(d - 1) }

\* parameter maps whose keys carry a pattern or reach the length limit
KeyInputs ==
    { <<".", ".", "/">>,
      <<"<", "S", "c", "r", "i", "p", "t">>,
      <<"a", NUL>>,
      Repeat("k", MAX_PARAM_KEY_LENGTH),
      Repeat("k", MAX_PARAM_KEY_LENGTH + 1) }

\* the params handed to validate_params
ParamTrees ==
    { PyDict(<< Item(<<"p">>, v) >>) : v \in Trees(MaxDepth) }
    \cup { PyDict(<< Item(k, PyStr(<<"o", "k">>)) >>) : k \in KeyInputs }
    \cup { PyDict(<< Item(<<"f">>, PyDict(<< Item(k, PyInt) >>)) >>) : k \in KeyInputs }

\* a service with the default configuration and no cache, nothing called
FunctionInit ==
    /\ max_retries = DefaultMaxRetries
    /\ retry_delay = DefaultRetryDelay
    /\ retry_backoff = DefaultRetryBackoff
    /\ cache_strategy = "None"
    /\ cache = <<>>
    /\ RequestIdle
    /\ BreakerUnused

\* validator.validate_params(params), the one call of the run (the
\* validator keeps no state between calls)
CallValidateParams(params) ==
    /\ call = NoCall
    /\ call' = [fn |-> "validate_params", arg |-> params,
                out |-> validate_params(params), value |-> NoEnvelope]
    /\ UNCHANGED <<bstate, now, rvars, client, limiter>>

ValidatorNext == \E params \in ParamTrees : CallValidateParams(params)

\* a DefaultValidator, called with every tree
ValidatorSpec == FunctionInit /\ [][ValidatorNext]_vars

(***************************************************************************)
(* BaseService._raise_for_status called on its own                         *)
(***************************************************************************)

StatusInputs == {100, 199, 200, 204, 299, 300, 302, 400, 401, 402, 403, 404,
                 418, 429, 499, 500, 503, 599, 600}

\* Retry-After: absent, empty, integers, a number that is no integer,
\* words, the start of an HTTP date
HeaderInputs ==
    { NoHeader,
      PyStr(<<>>),
      PyStr(<<"0">>),
      PyStr(<<"3">>),
      PyStr(<<"1", "2", "0">>),
      PyStr(<<" ", "7">>),
      PyStr(<<"1", ".", "5">>),
      PyStr(<<"s", "o", "o", "n">>),
      PyStr(<<"W", "e", "d", ",", " ", "2", "1">>) }

BodyInputs == {"error", "error_no_message", "json_list", "html", ""}

StatusResponses ==
    { Resp("response", sc, h, b) : sc \in StatusInputs, h \in HeaderInputs, b \in BodyInputs }

CallRaiseForStatus(response) ==
    /\ call = NoCall
    /\ call' = [fn |-> "_raise_for_status", arg |-> response,
                out |-> raise_for_status(response), value |-> NoEnvelope]
    /\ UNCHANGED <<bstate, now, rvars, client, limiter>>

StatusNext == \E response \in StatusResponses : CallRaiseForStatus(response)

StatusSpec == FunctionInit /\ [][StatusNext]_vars

(***************************************************************************)
(* BaseResponse: construction of a typed response envelope                 *)
(***************************************************************************)

\* values of the status key; NoStatus when the key is absent or null
EnvelopeStatuses == {NoStatus, 0, 200, 201, 400, 401, 403, 404, 429, 500, 502, 503}

\* values of the data key: "absent" (no key), "null", "valid" (validates as
\* DataT), "missing_fields" (a map without a required field of DataT),
\* "wrong_type" (not a map)
EnvelopePayloads == {"absent", "null", "valid", "missing_fields", "wrong_type"}

\* other keys of the body
EnvelopeExtras == {"none", "message"}

EnvelopeInputs ==
    [status : EnvelopeStatuses, data : EnvelopePayloads, extra : EnvelopeExtras]

\* BaseResponse.validate_status (mode='before'): the exception raised
validate_status(values) ==
    IF values.status # NoStatus /\ values.status # 200
    THEN Err("APIStatusError", values.status, NoHint)
    ELSE NoError

\* pydantic's validation of the fields status: int and
\* data: Optional[DataT] = None; the exception raised
validate_fields(values) ==
    IF values.status = NoStatus \/ values.data \in {"missing_fields", "wrong_type"}
    THEN Err("pydantic.ValidationError", NoStatus, NoHint)
    ELSE NoError

\* the instance that construction yields when nothing is raised
envelope(values) ==
    [status |-> values.status,
     data |-> IF values.data \in {"absent", "null"} THEN "None" ELSE values.data]

\* mutation of BaseResponse(**values): the fields are validated before the
\* status (a validator of mode 'after')
BaseResponse_status_after_fields(values) ==
    IF validate_fields(values) # NoError
    THEN [exc |-> validate_fields(values), value |-> NoEnvelope]
    ELSE IF validate_status(values) # NoError
    THEN [exc |-> validate_status(values), value |-> NoEnvelope]
    ELSE [exc |-> NoError, value |-> envelope(values)]

\* BaseResponse(**values): the exception raised, or the instance
BaseResponse(values) ==
    IF validate_status(values) # NoError
    THEN [exc |-> validate_status(values), value |-> NoEnvelope]
    ELSE IF validate_fields(values) # NoError
    THEN [exc |-> validate_fields(values), value |-> NoEnvelope]
    ELSE [exc |-> NoError, value |-> envelope(values)]

CallBaseResponse(values) ==
    /\ call = NoCall
    /\ call' = [fn |-> "BaseResponse", arg |-> values,
                out |-> BaseResponse(values).exc, value |-> BaseResponse(values).value]
    /\ UNCHANGED <<bstate, now, rvars, client, limiter>>

EnvelopeNext == \E values \in EnvelopeInputs : CallBaseResponse(values)

EnvelopeSpec == FunctionInit /\ [][EnvelopeNext]_vars

(***************************************************************************)
(* DigikalaClient: open, close, context manager, service accessors         *)
(***************************************************************************)

\* bound: transports created by one client
MaxOpens == 3

\* DigikalaClient.open
open(c) ==
    IF c.http_client = NoTransport
    THEN [c EXCEPT !.transports = Append(c.transports, 0),
                   !.http_client = Len(c.transports) + 1]
    ELSE c

\* mutation of close: the reference to the transport is kept
close_keeps_transport(c) ==
    IF c.http_client # NoTransport
    THEN [c EXCEPT !.transports[c.http_client] = @ + 1]
    ELSE c

\* DigikalaClient.close
close(c) ==
    IF c.http_client # NoTransport
    THEN [c EXCEPT !.transports[c.http_client] = @ + 1,
                   !.http_client = NoTransport]
    ELSE c

\* the accessors products, sellers, brands: the exception raised, the
\* fields afterwards, and the transport of the service returned
accessor(c, name) ==
    IF c.http_client = NoTransport
    THEN [raised |-> "RuntimeError", fields |-> c, returned |-> NoTransport]
    ELSE LET after == IF c.services[name] = NoTransport
                      THEN [c EXCEPT !.services[name] = c.http_client]
                      ELSE c
         IN [raised |-> "None", fields |-> after, returned |-> after.services[name]]

ClientStep(op, after, raised, returned) ==
    /\ client' = [fields |-> after, last_op |-> op, before |-> client.fields,
                  raised |-> raised, returned |-> returned]
    /\ UNCHANGED <<bstate, now, rvars, call, limiter>>

CanOpen ==
    client.fields.http_client # NoTransport \/ Len(client.fields.transports) < MaxOpens

Open ==
    /\ CanOpen
    /\ ClientStep("open", open(client.fields), "None", NoTransport)

Close == ClientStep("close", close(client.fields), "None", NoTransport)

\* __aenter__
Enter ==
    /\ CanOpen
    /\ ClientStep("__aenter__", open(client.fields), "None", NoTransport)

\* __aexit__, with or without an exception of the body
Exit(exc_type) ==
    ClientStep(IF exc_type = "None" THEN "__aexit__" ELSE "__aexit__ on exception",
               close(client.fields), "None", NoTransport)

Access(name) ==
    LET got == accessor(client.fields, name)
    IN ClientStep(name, got.fields, got.raised, got.returned)

ClientNext ==
    \/ Open
    \/ Close
    \/ Enter
    \/ \E exc_type \in {"None", "Exception"} : Exit(exc_type)
    \/ \E name \in ServiceNames : Access(name)

ClientSpec == FunctionInit /\ [][ClientNext]_vars

(***************************************************************************)
(* RateLimiter implementations: NoOpRateLimiter, AioLimiterAdapter         *)
(***************************************************************************)

\* bound: config.rate_limit_requests, the tokens of one window
MaxRate == 3
\* bound: calls made on one limiter
MaxLimiterCalls == 4

LimiterImpls == {"NoOpRateLimiter", "AioLimiterAdapter"}

\* AsyncLimiter.has_capacity; NoOpRateLimiter has no quota
has_capacity(l) == l.impl = "NoOpRateLimiter" \/ l.level < l.max_rate

\* A call of acquire or try_acquire.  NoOpRateLimiter returns at once.
\* AioLimiterAdapter awaits self._limiter.acquire() in both: a token is
\* taken if there is capacity, otherwise the caller is suspended in it.
LimiterCall(op, value) ==
    /\ limiter.caller = "idle"
    /\ limiter.ncalls < MaxLimiterCalls
    /\ limiter' =
         LET l == [limiter EXCEPT !.last_op = op, !.ncalls = @ + 1,
                                  !.full = ~has_capacity(limiter)]
         IN IF limiter.impl = "NoOpRateLimiter"
            THEN [l EXCEPT !.returned = value]
            ELSE IF has_capacity(limiter)
            THEN [l EXCEPT !.level = @ + 1, !.returned = value]
            ELSE [l EXCEPT !.caller = "suspended", !.returned = "None"]
    /\ UNCHANGED <<bstate, now, rvars, call, client>>

\* RateLimiter.acquire
LimiterAcquire == LimiterCall("acquire", "None")

\* RateLimiter.try_acquire
TryAcquire == LimiterCall("try_acquire", "True")

\* AsyncLimiter.acquire resumes the suspended caller once there is capacity
LimiterResume ==
    /\ limiter.caller = "suspended"
    /\ has_capacity(limiter)
    /\ limiter' = [limiter EXCEPT !.caller = "idle", !.level = @ + 1,
                                  !.returned = IF limiter.last_op = "try_acquire"
                                               THEN "True" ELSE "None"]
    /\ UNCHANGED <<bstate, now, rvars, call, client>>

\* time passes: a token drains from the bucket
LimiterDrain ==
    /\ limiter.level > 0
    /\ limiter' = [limiter EXCEPT !.level = @ - 1]
    /\ UNCHANGED <<bstate, now, rvars, call, client>>

LimiterInit ==
    /\ max_retries = DefaultMaxRetries
    /\ retry_delay = DefaultRetryDelay
    /\ retry_backoff = DefaultRetryBackoff
    /\ cache_strategy = "None"
    /\ cache = <<>>
    /\ NothingInFlight
    /\ BreakerUnused
    /\ \/ limiter = NewLimiter("NoOpRateLimiter", 0)
       \/ \E max_rate \in 1..MaxRate : limiter = NewLimiter("AioLimiterAdapter", max_rate)

LimiterNext ==
    \/ LimiterAcquire
    \/ TryAcquire
    \/ LimiterResume
    \/ LimiterDrain

LimiterSpec == LimiterInit /\ [][LimiterNext]_vars

\* the log entries that are calls of self.cache_strategy
CacheGets == {"cache_get", "cache_get_error"}
CacheSets == {"cache_set", "cache_set_error"}

\* the log of the request in flight, by kind of entry
Transports == SelectSeq(log, LAMBDA x : x.ev = "transport")
Sleeps == SelectSeq(log, LAMBDA x : x.ev = "sleep")

(***************************************************************************)
(* Specification of the breaker alone                                      *)
(***************************************************************************)

Init ==
    /\ BreakerInit
    /\ max_retries = DefaultMaxRetries
    /\ retry_delay = DefaultRetryDelay
    /\ retry_backoff = DefaultRetryBackoff
    /\ cache_strategy = "None"
    /\ cache = <<>>
    /\ RequestIdle

Next ==
    \/ \E c \in Callers : CallAdmit(c)
    \/ \E c \in Callers : CallSucceed(c)
    \/ \E c \in Callers : CallFail(c)
    \/ RecordSuccess
    \/ RecordFailure
    \/ Tick

Spec == Init /\ [][Next]_vars

(***************************************************************************)
(* Specification of the breaker once every wrapped function succeeds      *)
(***************************************************************************)

\* The values the fields of a DefaultCircuitBreaker can hold after any
\* history of call, record_success and record_failure.
BreakerStates ==
    { b \in [state : {"CLOSED", "OPEN", "HALF_OPEN"},
             failure_count : 0..failure_threshold,
             success_count : 0..success_threshold - 1,
             last_failure_time : {NoTime} \cup 0..MaxTime] :
        /\ b.last_failure_time <= now
        /\ b.failure_count > 0 => b.last_failure_time # NoTime
        /\ b.state = "CLOSED" => b.failure_count < failure_threshold /\ b.success_count = 0
        /\ b.state # "CLOSED" => b.failure_count = failure_threshold }

\* The calls in flight at any moment: each was admitted while the breaker
\* was CLOSED or HALF_OPEN and has not returned yet.
CallsInFlight ==
    /\ pc \in [Callers -> {"idle", "running"}]
    /\ admitted_in \in [Callers -> {"none", "CLOSED", "HALF_OPEN"}]
    /\ \A c \in Callers : pc[c] = "idle" <=> admitted_in[c] = "none"

\* every state of the breaker alone is one of the states a recovery starts in
RecoveryStartsAnywhere == cb \in BreakerStates /\ CallsInFlight /\ lock = NoHolder

\* The moment after the last failure: any state the breaker and its callers
\* can be in, at any time.
RecoveryInit ==
    /\ failure_threshold \in 1..MaxThreshold
    /\ success_threshold \in 1..MaxThreshold
    /\ recovery_timeout \in 1..MaxTimeout
    /\ now \in 0..MaxTime
    /\ cb \in BreakerStates
    /\ CallsInFlight
    /\ lock = NoHolder
    /\ invoked = 0
    /\ ncalls = 0
    /\ last_op = "init"
    /\ prev = [cb |-> cb, now |-> now, invoked |-> 0, locked |-> FALSE,
               admitted_in |-> "none"]
    /\ streak = 0
    /\ max_retries = DefaultMaxRetries
    /\ retry_delay = DefaultRetryDelay
    /\ retry_backoff = DefaultRetryBackoff
    /\ cache_strategy = "None"
    /\ cache = <<>>
    /\ RequestIdle

\* callers keep calling, without a bound on the number of calls
RecoveryAdmit(c) == Admission(c, FALSE)

\* time.time() advances; once the recovery timeout has elapsed the clock is
\* no longer read, so later readings are not told apart
RecoveryTick ==
    /\ cb.state = "OPEN"
    /\ ~should_attempt_reset(cb, now)
    /\ Advance

RecoveryNext ==
    \/ \E c \in Callers : RecoveryAdmit(c)
    \/ \E c \in Callers : CallSucceed(c)
    \/ RecoveryTick

RecoverySpec == RecoveryInit /\ [][RecoveryNext]_vars

\* The event loop runs every task that is ready: a caller that can take the
\* lock takes it, a wrapped function that can return returns, and the clock
\* moves on.
RecoveryFairSpec ==
    /\ RecoverySpec
    /\ WF_vars(\E c \in Callers : RecoveryAdmit(c))
    /\ WF_vars(\E c \in Callers : CallSucceed(c))
    /\ WF_vars(RecoveryTick)

TypeOK ==
    /\ cb.state \in {"CLOSED", "OPEN", "HALF_OPEN"}
    /\ cb.failure_count \in 0..MaxThreshold + 1
    /\ cb.success_count \in 0..MaxThreshold + 1
    /\ cb.last_failure_time \in {NoTime} \cup 0..MaxTime + 1

(***************************************************************************)
(* Claims about DefaultCircuitBreaker (checked under Spec)                 *)
(***************************************************************************)

Elapsed(snap) == snap.now - snap.cb.last_failure_time

\* C1: starting CLOSED, the failure that completes a run of
\* failure_threshold consecutive failures (and no earlier one) moves the
\* breaker to OPEN, and a call made while OPEN before recovery_timeout has
\* elapsed raises the circuit-open error without invoking the wrapped action.
C1_OpensAtThresholdThenFailsFast ==
    /\ cb.state = "CLOSED" => streak < failure_threshold
    /\ (last_op = "failure" /\ prev.cb.state = "CLOSED")
          => (cb.state = "OPEN" <=> streak >= failure_threshold)
    /\ (last_op \in {"admit", "reject"} /\ prev.cb.state = "OPEN"
            /\ Elapsed(prev) < recovery_timeout)
          => (last_op = "reject" /\ invoked = prev.invoked /\ cb.state = "OPEN")

C1_Witness ==
    /\ last_op = "reject"
    /\ failure_threshold = 2
    /\ streak = 2
    /\ prev.cb.success_count = 0
    /\ invoked = 2

\* C2: in OPEN, a call made once now - last_failure_time >= recovery_timeout
\* moves the breaker to HALF_OPEN with success_count 0 and invokes the
\* wrapped action; a call made earlier does not invoke it.
C2_HalfOpenAfterRecoveryTimeout ==
    (last_op \in {"admit", "reject"} /\ prev.cb.state = "OPEN")
        => IF Elapsed(prev) >= recovery_timeout
           THEN /\ last_op = "admit"
                /\ cb.state = "HALF_OPEN"
                /\ cb.success_count = 0
                /\ invoked = prev.invoked + 1
           ELSE /\ last_op = "reject"
                /\ invoked = prev.invoked

C2_Witness ==
    /\ last_op = "admit"
    /\ prev.cb.state = "OPEN"
    /\ prev.cb.success_count > 0
    /\ cb.state = "HALF_OPEN"
    /\ cb.success_count = 0

\* C3: in HALF_OPEN a success increments success_count; when it reaches
\* success_threshold the breaker is CLOSED with failure_count = 0 and
\* success_count = 0, otherwise it stays HALF_OPEN.
C3_HalfOpenSuccessCloses ==
    (last_op = "success" /\ prev.cb.state = "HALF_OPEN")
        => IF prev.cb.success_count + 1 >= success_threshold
           THEN cb.state = "CLOSED" /\ cb.failure_count = 0 /\ cb.success_count = 0
           ELSE /\ cb.state = "HALF_OPEN"
                /\ cb.success_count = prev.cb.success_count + 1
                /\ cb.failure_count = prev.cb.failure_count

C3_Witness ==
    /\ last_op = "success"
    /\ prev.cb.state = "HALF_OPEN"
    /\ prev.cb.success_count = 1
    /\ prev.cb.failure_count > 0
    /\ cb.state = "CLOSED"

\* C4: in HALF_OPEN a failure moves the breaker to OPEN with failure_count =
\* failure_threshold and last_failure_time = the time of that failure, and
\* no call is admitted from OPEN before recovery_timeout has elapsed since
\* the last recorded failure.
C4_HalfOpenFailureReopens ==
    /\ (last_op = "failure" /\ prev.cb.state = "HALF_OPEN")
          => /\ cb.state = "OPEN"
             /\ cb.failure_count = failure_threshold
             /\ cb.last_failure_time = prev.now
    /\ (last_op = "admit" /\ prev.cb.state = "OPEN")
          => prev.now >= prev.cb.last_failure_time + recovery_timeout

C4_Witness ==
    /\ last_op = "failure"
    /\ prev.cb.state = "HALF_OPEN"
    /\ cb.state = "OPEN"
    /\ cb.last_failure_time > prev.cb.last_failure_time

(***************************************************************************)
(* Claims about BaseService (checked under RequestSpec and RetrySpec)      *)
(***************************************************************************)

\* the _request call has ended
Done == rpc = "idle" /\ outcome.status # "pending"

\* the entry at position i of the log is a transport call
IsTransport(i) == i \in 1..Len(log) /\ log[i].ev = "transport"

\* C5: every transport attempt of _request goes through the circuit breaker,
\* so no attempt reaches the transport once failure_threshold consecutive
\* attempts on the service have failed and recovery_timeout has not elapsed
\* since the last failure.
C5_BreakerGuardsTransport ==
    [][ (rpc = "request_fn" /\ log' # log)
           => ~ ( /\ svc_streak >= failure_threshold
                  /\ svc_quiet < recovery_timeout ) ]_vars

\* C6: when every attempt ends in a transport timeout, request_fn is invoked
\* exactly max_retries + 1 times and TimeoutError is raised; a timeout at an
\* attempt that is not the last one is followed by a sleep, not by a raise.
C6_TimeoutsExhaustRetries ==
    /\ ( /\ Done
         /\ Transports # <<>>
         /\ \A i \in 1..Len(Transports) : Transports[i].resp.kind = "timeout" )
          => /\ outcome.status = "raised"
             /\ outcome.error.kind = "TimeoutError"
             /\ Len(Transports) = max_retries + 1
    /\ \A i \in 1..Len(log) :
          ( /\ IsTransport(i)
            /\ log[i].resp.kind = "timeout"
            /\ log[i].n < max_retries )
             => /\ i < Len(log)
                /\ log[i + 1].ev = "sleep"
                /\ ~ (Done /\ Len(Transports) <= log[i].n + 1)

C6_Witness ==
    /\ Done
    /\ max_retries = 2
    /\ Len(Transports) = 3
    /\ \A i \in 1..Len(Transports) : Transports[i].resp.kind = "timeout"
    /\ outcome.error.kind = "TimeoutError"

\* C7: a request whose first answer is HTTP 404 makes exactly one attempt
\* for any max_retries: no sleep, no second transport call, and
\* NotFoundError with status_code 404 is raised.
C7_NotFoundIsNotRetried ==
    ( /\ Transports # <<>>
      /\ Transports[1].resp.kind = "response"
      /\ Transports[1].resp.status_code = 404 )
        => /\ Done
           /\ Len(Transports) = 1
           /\ Sleeps = <<>>
           /\ outcome = Raised(Err("NotFoundError", 404, NoHint))

\* C8: an attempt that raises RateLimitError carrying a Retry-After hint N
\* while attempts remain is followed by a sleep of exactly N.
C8_RetryAfterHintIsSleptExactly ==
    \A i \in 1..Len(log) :
        ( /\ IsTransport(i)
          /\ log[i].resp.kind = "response"
          /\ log[i].resp.status_code = 429
          /\ log[i].resp.retry_after_header # NoHeader
          /\ log[i].n < max_retries )
           => /\ i < Len(log)
              /\ log[i + 1].ev = "sleep"
              /\ log[i + 1].n = int(log[i].resp.retry_after_header.s).value

\* C9: a GET answered 429 without Retry-After on every attempt makes exactly
\* max_retries + 1 transport attempts (3 for max_retries = 2) and raises
\* RateLimitError.
C9_RateLimitWithoutHintExhausts ==
    ( /\ Done
      /\ req.method = "GET"
      /\ Transports # <<>>
      /\ \A i \in 1..Len(Transports) :
            /\ Transports[i].resp.kind = "response"
            /\ Transports[i].resp.status_code = 429
            /\ Transports[i].resp.retry_after_header = NoHeader )
        => /\ outcome = Raised(Err("RateLimitError", 429, NoHint))
           /\ Len(Transports) = max_retries + 1
           /\ (max_retries = 2 => Len(Transports) = 3)

C9_Witness ==
    /\ Done
    /\ req.method = "GET"
    /\ max_retries = 2
    /\ Len(Transports) = 3
    /\ \A i \in 1..3 : /\ Transports[i].resp.status_code = 429
                       /\ Transports[i].resp.retry_after_header = NoHeader
    /\ outcome.error.kind = "RateLimitError"

\* C10: a 503 at attempt index i with attempts remaining is followed by a
\* sleep of retry_delay * retry_backoff^i, and a GET answered 503, 503, 200
\* with max_retries = 2 makes 3 attempts, sleeps retry_delay and then
\* retry_delay * retry_backoff, and returns the typed payload.
C10_ServerErrorsBackOffThenSucceed ==
    /\ \A i \in 1..Len(log) :
          ( /\ IsTransport(i)
            /\ log[i].resp.kind = "response"
            /\ log[i].resp.status_code = 503
            /\ log[i].n < max_retries )
             => /\ i < Len(log)
                /\ log[i + 1].ev = "sleep"
                /\ log[i].n = 0 => log[i + 1].n = retry_delay
                /\ log[i].n = 1 => log[i + 1].n = retry_delay * retry_backoff
                /\ log[i].n = 2 =>
                      log[i + 1].n = retry_delay * retry_backoff * retry_backoff
    /\ ( /\ Done
         /\ req.method = "GET"
         /\ max_retries = 2
         /\ Len(Transports) >= 2
         /\ Transports[1].resp.status_code = 503
         /\ Transports[2].resp.status_code = 503 )
          => /\ Len(Transports) = 3
             /\ Len(Sleeps) = 2
             /\ Sleeps[1].n = retry_delay
             /\ Sleeps[2].n = retry_delay * retry_backoff
             /\ (Transports[3].resp = Resp("response", 200, NoHeader, "v1")
                    => outcome = Returned("v1"))

C10_Witness ==
    /\ Done
    /\ req.method = "GET"
    /\ max_retries = 2
    /\ retry_delay = 2
    /\ retry_backoff = 2
    /\ Len(Transports) = 3
    /\ Transports[1].resp.status_code = 503
    /\ Transports[2].resp.status_code = 503
    /\ Transports[3].resp = Resp("response", 200, NoHeader, "v1")
    /\ Sleeps = << Ev("sleep", 2, NoResp), Ev("sleep", 4, NoResp) >>
    /\ outcome = Returned("v1")

\* C11: for every sequence of attempt outcomes and every max_retries >= 0
\* the retry loop ends after at most max_retries + 1 invocations of the
\* action (numbered 0, 1, ... without gaps, a sleep only while attempts
\* remain), only the last invocation can be a success, and the call returns
\* the result of that success or else raises an error.
C11_RetryLoopTerminates ==
    /\ [] ( /\ Len(Transports) <= max_retries + 1
            /\ attempt <= max_retries
            /\ rpc = "sleep" => attempt < max_retries
            /\ \A i \in 1..Len(Transports) :
                  /\ Transports[i].n = i - 1
                  /\ i < Len(Transports) => request_fn(Transports[i].resp).exc # NoError
            /\ (Done /\ Transports # <<>>) =>
                  LET r == request_fn(Transports[Len(Transports)].resp) IN
                  IF r.exc = NoError
                  THEN outcome = Returned(r.value)
                  ELSE outcome.status = "raised" /\ outcome.error # NoError )
    /\ ((rpc # "idle") ~> Done)

C11_Witness ==
    /\ Done
    /\ max_retries = 2
    /\ Len(Transports) = 3
    /\ request_fn(Transports[1].resp).exc.kind = "httpx.ConnectError"
    /\ request_fn(Transports[2].resp).exc.kind = "ServerError"
    /\ outcome = Returned("v1")

\* C12: an invocation of the action that raises the circuit-open error is
\* the last entry of the request: no sleep and no further invocation follow
\* it, and the call ends raising that CircuitBreakerOpenError.
C12_CircuitOpenIsTerminal ==
    \A i \in 1..Len(log) :
        (IsTransport(i) /\ log[i].resp.kind = "circuit_open")
           => /\ i = Len(log)
              /\ Done
              /\ outcome = Raised(Err("CircuitBreakerOpenError", NoStatus, NoHint))

\* C13: a 200 response that fails schema validation is never retried, for
\* any max_retries: it is the only invocation of the action, no sleep
\* follows it, and the call ends raising the validation error.
C13_ValidationErrorIsNotRetried ==
    \A i \in 1..Len(log) :
        ( /\ IsTransport(i)
          /\ log[i].resp.kind = "response"
          /\ is_success(log[i].resp)
          /\ ~response_model_ok(log[i].resp.body) )
           => /\ i = Len(log)
              /\ Done
              /\ Len(Transports) = 1
              /\ Sleeps = <<>>
              /\ outcome = Raised(Err("ValidationError", log[i].resp.status_code, NoHint))

\* C14: a request whose upper-cased method is not allowed, whose endpoint is
\* empty or lacks the leading "/", or whose params the validator rejects
\* ends with ValueError having done nothing else: no rate-limiter
\* acquisition, no cache read or write, no transport call.
C14_InvalidRequestFailsFirst ==
    ( /\ req # NoRequest
      /\ \/ req.method \notin ALLOWED_HTTP_METHODS
         \/ req.endpoint = <<>>
         \/ ~startswith(req.endpoint, "/")
         \/ truthy(req.params) /\ validate_params(req.params) # NoError )
        => /\ Done
           /\ outcome = Raised(Err("ValueError", NoStatus, NoHint))
           /\ log = <<>>
           /\ cache \in InitialCaches

C14_Witness ==
    /\ Done
    /\ outcome = Raised(Err("ValueError", NoStatus, NoHint))
    /\ req.method = "GET"
    /\ req.endpoint = <<"/", "p">>
    /\ truthy(req.params)
    /\ req.params.items[1].value.t = "dict"
    /\ validate_params(req.params) # NoError
    /\ cache_strategy = "MemoryCacheStrategy"
    /\ DOMAIN cache # {}

\* C15: a request whose endpoint DefaultValidator.validate_endpoint rejects
\* (it contains "../", "//" or a null byte) ends with the validation error
\* before any transport call.
C15_SuspiciousEndpointIsRejected ==
    (req # NoRequest /\ validate_endpoint(req.endpoint) # NoError)
        => /\ Done
           /\ outcome = Raised(Err("ValueError", NoStatus, NoHint))
           /\ Transports = <<>>

\* C16: the rate limiter is acquired before the cache is consulted, so every
\* cache lookup of a request comes after its acquire, and a GET answered
\* from the cache has acquired the limiter.
C16_AcquireBeforeCacheLookup ==
    /\ \A i \in 1..Len(log) :
          log[i].ev \in CacheGets => \E j \in 1..(i - 1) : log[j].ev = "acquire"
    /\ (Done /\ outcome.status = "returned" /\ Transports = <<>>)
          => \E j \in 1..Len(log) : log[j].ev = "acquire"

\* C17: a request whose method is not GET (POST, PUT, DELETE, PATCH, HEAD,
\* OPTIONS) makes no cache get and no cache set, and no step of it changes
\* the contents of the cache.
C17_CacheOnlyForGet ==
    [][ req'.method # "GET"
           => /\ cache' = cache
              /\ \A i \in 1..Len(log') : log'[i].ev \notin (CacheGets \cup CacheSets) ]_vars

C17_Witness ==
    /\ Done
    /\ req.method = "DELETE"
    /\ outcome = Returned("v1")
    /\ cache_strategy = "MemoryCacheStrategy"
    /\ generate_cache_key(req.endpoint, req.params) \in DOMAIN cache
    /\ cache[generate_cache_key(req.endpoint, req.params)] = "dump_v0"

\* dict.__eq__ on two params arguments: the same items, in any order
SameParams(a, b) ==
    /\ a.t = b.t
    /\ {a.items[i] : i \in 1..Len(a.items)} = {b.items[i] : i \in 1..Len(b.items)}

C19_CacheGetFailureIsAMiss ==
    ( /\ \E i \in 1..Len(log) : log[i].ev = "cache_get_error"
      /\ \A i \in 1..Len(log) : log[i].ev # "cache_set_error" )
        => /\ outcome.error.kind # "CacheBackendError"
           /\ Done => Transports # <<>>

\* C20: when the cached payload of a GET does not validate against the
\* response model, the lookup raises nothing: the request goes on to the
\* rate limiter and a fresh network call, only the network can make it
\* fail, and when the call succeeds it returns the fresh result and the
\* cache write replaces the stale entry with it.
C20_StaleCacheEntryFallsThrough ==
    ( /\ log # <<>>
      /\ log[1].ev = "cache_get"
      /\ log[1].resp.body # "None"
      /\ ~response_model_ok(log[1].resp.body) )
        => /\ Len(log) = 1 => (rpc = "acquire" /\ outcome = Pending)
           /\ Len(log) >= 2 => log[2].ev = "acquire"
           /\ Done => Transports # <<>>
           /\ (Done /\ outcome.status = "returned")
                 => /\ request_fn(Transports[Len(Transports)].resp).exc = NoError
                    /\ outcome.value = request_fn(Transports[Len(Transports)].resp).value
                    /\ log[Len(log)].ev \in CacheSets
                    /\ log[Len(log)].ev = "cache_set"
                          => cache[generate_cache_key(req.endpoint, req.params)]
                                = model_dump(outcome.value)

C20_Witness ==
    /\ Done
    /\ cache_strategy = "MemoryCacheStrategy"
    /\ log # <<>>
    /\ log[1] = Ev("cache_get", 0, Resp("cached", 0, NoHeader, "dump_v0"))
    /\ Len(Transports) = 2
    /\ outcome = Returned("v2")
    /\ generate_cache_key(req.endpoint, req.params) \in DOMAIN cache
    /\ cache[generate_cache_key(req.endpoint, req.params)] = "dump_v2"

\* C21: for any injected cache strategy, a failure of the cache's set after
\* a successful network GET is swallowed: the request still returns the
\* typed result of the network call.
C21_CacheSetFailureIsSwallowed ==
    (\E i \in 1..Len(log) : log[i].ev = "cache_set_error")
        => /\ Done
           /\ outcome = Returned(result)
           /\ result = request_fn(Transports[Len(Transports)].resp).value

(***************************************************************************)
(* Claims about the functions called on their own                          *)
(***************************************************************************)

\* the string values of a parameter tree, at every nesting depth
RECURSIVE StringValues(_)
StringValues(v) ==
    IF v.t = "str" THEN {v.s}
    ELSE UNION { StringValues(v.items[i].value) : i \in 1..Len(v.items) }

\* the keys of the maps of a parameter tree, at every nesting depth
RECURSIVE MapKeys(_)
MapKeys(v) ==
    (IF v.t = "dict" THEN {v.items[i].key : i \in 1..Len(v.items)} ELSE {})
    \cup UNION { MapKeys(v.items[i].value) : i \in 1..Len(v.items) }

\* the string contains one of the five patterns, whatever its casing
IsSuspicious(str) == \E pattern \in suspicious_patterns : Contains(lower(str), pattern)

\* C22: validate_params rejects exactly the parameter trees in which some
\* string value, at any nesting depth (maps, lists, lists of maps, lists in
\* lists), contains "../", "://", "<script", "javascript:" or a null byte in
\* any casing, or in which a key or a string value is over-long; every
\* other tree is accepted.
C22_SuspiciousValuesAreRejected ==
    call.fn = "validate_params"
        => ( call.out # NoError
               <=> \/ \E str \in StringValues(call.arg) : IsSuspicious(str)
                   \/ \E str \in StringValues(call.arg) : Len(str) > MAX_PARAM_VALUE_LENGTH
                   \/ \E k \in MapKeys(call.arg) : Len(k) > MAX_PARAM_KEY_LENGTH )

C22_Witness ==
    /\ call.fn = "validate_params"
    /\ call.arg = PyDict(<< Item(<<"p">>,
                          PyList(<< PyStr(<<"o", "k">>),
                                    PyList(<< PyStr(<<"<", "S", "C", "R", "I", "P", "T", ">">>)
                                           >>) >>)) >>)
    /\ call.out = Err("ValueError", NoStatus, NoHint)

\* C23: validate_params rejects a parameter tree when a key of one of its
\* maps, at any nesting depth, contains one of the five patterns in any
\* casing.
C23_SuspiciousKeysAreRejected ==
    ( /\ call.fn = "validate_params"
      /\ \E k \in MapKeys(call.arg) : IsSuspicious(k) )
        => call.out # NoError

\* the error kind that belongs to a status code that is not a success
KindOfStatus(sc) ==
    CASE sc = 400 -> "BadRequestError"
      [] sc = 401 -> "UnauthorizedError"
      [] sc = 403 -> "ForbiddenError"
      [] sc = 404 -> "NotFoundError"
      [] sc = 429 -> "RateLimitError"
      [] sc \in 500..599 -> "ServerError"
      [] OTHER -> "DigikalaAPIError"

\* C24: _raise_for_status raises nothing for a success response and maps
\* every other response to the one error kind of its status code (400, 401,
\* 403, 404, 429, 500-599, anything else the generic error); the error of a
\* 429 carries the integer of the Retry-After header when the header is
\* present and no hint otherwise.
C24_StatusCodeDeterminesErrorKind ==
    call.fn = "_raise_for_status"
        => LET response == call.arg
               sc == response.status_code
               header == response.retry_after_header
           IN IF sc \in 200..299 THEN call.out = NoError
              ELSE /\ call.out.kind = KindOfStatus(sc)
                   /\ call.out.status_code = sc
                   /\ call.out.retry_after =
                         IF sc = 429 /\ header # NoHeader /\ int(header.s).exc = "None"
                         THEN int(header.s).value ELSE NoHint

\* C25: whatever the body and the Retry-After header of a response that is
\* not a success, _raise_for_status raises an error of the taxonomy and no
\* exception of another type.
C25_OnlyTaxonomyErrorsEscape ==
    ( /\ call.fn = "_raise_for_status"
      /\ ~is_success(call.arg) )
        => call.out.kind \in DigikalaAPIErrors

\* C26: constructing a response envelope whose status is given and is not
\* 200 raises the status error of that status, whatever the payload
\* (missing, null, lacking required fields, of the wrong type): never a
\* schema error, and no instance.
C26_StatusErrorBeforePayloadValidation ==
    ( /\ call.fn = "BaseResponse"
      /\ call.arg.status # NoStatus
      /\ call.arg.status # 200 )
        => /\ call.out = Err("APIStatusError", call.arg.status, NoHint)
           /\ call.value = NoEnvelope

C26_Witness ==
    /\ call.fn = "BaseResponse"
    /\ call.arg.status = 404
    /\ call.arg.data = "missing_fields"
    /\ call.out = Err("APIStatusError", 404, NoHint)

\* C27: every response envelope that construction yields has status 200
\* and a payload that is present and valid; construction with status 200
\* and an absent or null payload fails.
C27_EnvelopeHasStatus200AndPayload ==
    call.fn = "BaseResponse"
        => /\ call.out = NoError => /\ call.value.status = 200
                                    /\ call.value.data = "valid"
           /\ (call.arg.status = 200 /\ call.arg.data \in {"absent", "null"})
                 => call.out # NoError

\* the transports on which aclose() was not awaited yet
OpenTransports(c) == {i \in 1..Len(c.transports) : c.transports[i] = 0}

\* C28: after any sequence of open, close, entering and leaving the
\* context (with or without an exception) and accessor calls: an accessor
\* called while no transport is open raises and hands out no service; at
\* most one transport is open; every transport created was closed exactly
\* once, except the one currently held, which was not closed yet; close on
\* a closed client changes nothing.
C28_TransportLifecycle ==
    LET c == client.fields IN
    /\ (client.last_op \in ServiceNames /\ client.before.http_client = NoTransport)
          => /\ client.raised = "RuntimeError"
             /\ client.returned = NoTransport
             /\ c = client.before
    /\ Cardinality(OpenTransports(c)) <= 1
    /\ \A i \in 1..Len(c.transports) :
          c.transports[i] = IF i = c.http_client THEN 0 ELSE 1
    /\ ( /\ client.last_op \in {"close", "__aexit__", "__aexit__ on exception"}
         /\ client.before.http_client = NoTransport )
          => c = client.before

C28_Witness ==
    /\ client.last_op = "__aexit__ on exception"
    /\ client.before.http_client = 2
    /\ client.fields.http_client = NoTransport
    /\ client.fields.transports = <<1, 1>>

\* C29: try_acquire never suspends its caller: called when the quota is
\* exhausted it returns False at once, and it returns True only when a
\* token was granted.
C29_TryAcquireNeverSuspends ==
    limiter.last_op = "try_acquire"
        => /\ limiter.caller # "suspended"
           /\ limiter.full => limiter.returned = "False"
           /\ limiter.returned = "True" => ~limiter.full

\* C30: every operation that checks or changes the breaker's state, its
\* counters or its last-failure timestamp (the admission check of call, and
\* the recording by record_success and record_failure after the wrapped
\* function returned or raised) does so while the breaker's lock is held.
C30_BreakerFieldsOnlyUnderLock ==
    last_op \in {"admit", "reject", "success", "failure"} => prev.locked

(***************************************************************************)
(* Claims about concurrent callers of DefaultCircuitBreaker                *)
(***************************************************************************)

\* the callers whose wrapped function is in flight and whose call passed
\* admission while the breaker was in the given state
InFlight(state) == {c \in Callers : pc[c] = "running" /\ admitted_in[c] = state}

\* C31: while the breaker is HALF_OPEN, at most success_threshold wrapped
\* functions admitted as trial calls are in flight at once; further callers
\* are not admitted.
C31_HalfOpenTrialsAreLimited ==
    cb.state = "HALF_OPEN" => Cardinality(InFlight("HALF_OPEN")) <= success_threshold

\* C32: while a wrapped function is in flight the breaker's lock is free,
\* and a sibling caller can make its call: the admission check runs at
\* once, and if it admits, the sibling's own function starts.
C32_LockIsFreeWhileActionRuns ==
    (\E d \in Callers : pc[d] = "running")
        => /\ lock = NoHolder
           /\ \A c \in Callers :
                 (pc[c] = "idle" /\ ncalls < MaxCalls)
                    => /\ ENABLED CallAdmit(c)
                       /\ call_admission(cb, now).admitted
                             => ENABLED (CallAdmit(c) /\ pc'[c] = "running")

C32_Witness ==
    /\ last_op = "admit"
    /\ \A c \in Callers : pc[c] = "running"
    /\ lock = NoHolder

\* C33: in CLOSED a success resets the failure counter to 0 and leaves the
\* breaker CLOSED; the counter of a CLOSED breaker is the number of
\* failures since the last success, so the breaker goes from CLOSED to OPEN
\* only by the failure that completes failure_threshold failures in a row.
C33_SuccessResetsFailureCount ==
    /\ (last_op = "success" /\ prev.cb.state = "CLOSED")
          => cb.state = "CLOSED" /\ cb.failure_count = 0
    /\ cb.state = "CLOSED"
          => cb.failure_count = streak /\ streak < failure_threshold
    /\ (prev.cb.state = "CLOSED" /\ cb.state = "OPEN")
          => last_op = "failure" /\ streak = failure_threshold

C33_Witness ==
    /\ last_op = "success"
    /\ prev.cb.state = "CLOSED"
    /\ prev.cb.failure_count > 0
    /\ prev.cb.failure_count = failure_threshold - 1
    /\ cb.failure_count = 0

(***************************************************************************)
(* Further claims about _request                                           *)
(***************************************************************************)

\* C34: a step of _request changes the contents of the cache only as the
\* last step of a GET whose last transport call returned a success
\* response that validated, and the request then returns that result; the
\* step stores the entry of the request's key and leaves every other entry
\* as it was (nothing is deleted or cleared).  So a request that ends in
\* an error has not changed the cache.
C34_CacheChangesOnlyOnSuccessfulGet ==
    [][ cache' # cache
          => /\ req.method = "GET"
             /\ Transports # <<>>
             /\ LET last == Transports[Len(Transports)].resp IN
                  /\ last.kind = "response"
                  /\ is_success(last)
                  /\ response_model_ok(last.body)
                  /\ outcome' = Returned(response_model(last.body))
             /\ rpc' = "idle"
             /\ \A k \in DOMAIN cache :
                   /\ k \in DOMAIN cache'
                   /\ k # generate_cache_key(req.endpoint, req.params)
                         => cache'[k] = cache[k] ]_vars

C34_Witness ==
    /\ Done
    /\ req.method = "GET"
    /\ cache_enabled
    /\ outcome.status = "raised"
    /\ Len(Transports) = max_retries + 1
    /\ cache = (generate_cache_key(<<"/", "p">>, PyNone) :> "dump_v0")
    /\ req.params # PyNone

(***************************************************************************)
(* Further claims about DefaultCircuitBreaker (checked under Spec)         *)
(***************************************************************************)

StateChanges ==
    { <<"CLOSED", "OPEN">>, <<"OPEN", "HALF_OPEN">>,
      <<"HALF_OPEN", "CLOSED">>, <<"HALF_OPEN", "OPEN">> }

\* C35: under every interleaving of concurrent call, record_success and
\* record_failure, a step that changes the breaker's state takes it from
\* CLOSED to OPEN, from OPEN to HALF_OPEN, from HALF_OPEN to CLOSED or from
\* HALF_OPEN to OPEN; never from OPEN to CLOSED nor from CLOSED to
\* HALF_OPEN.
C35_OnlyFourStateChanges ==
    [][ cb'.state # cb.state => <<cb.state, cb'.state>> \in StateChanges ]_vars

C35_Witness ==
    /\ last_op = "success"
    /\ prev.admitted_in = "CLOSED"
    /\ prev.cb.state = "OPEN"
    /\ cb.state = "OPEN"

\* C36: in every reachable state (failure_threshold >= 1 and
\* success_threshold >= 1): failure_count is at most failure_threshold; in
\* CLOSED it is below failure_threshold and success_count is 0; in OPEN and
\* in HALF_OPEN it equals failure_threshold and a last-failure time is
\* recorded; success_count is below success_threshold.
C36_CountersWithinThresholds ==
    /\ cb.failure_count <= failure_threshold
    /\ cb.state = "CLOSED"
          => cb.failure_count < failure_threshold /\ cb.success_count = 0
    /\ cb.state \in {"OPEN", "HALF_OPEN"}
          => cb.failure_count = failure_threshold /\ cb.last_failure_time # NoTime
    /\ cb.success_count < success_threshold

C36_Witness ==
    /\ cb.state = "OPEN"
    /\ cb.success_count > 0
    /\ cb.failure_count = failure_threshold
    /\ last_op = "failure"
    /\ prev.cb.state = "HALF_OPEN"

\* C37: once every wrapped function succeeds, time advances and callers keep
\* calling, the breaker reaches CLOSED and is CLOSED from then on.
C37_RecoversAndStaysClosed == <>[](cb.state = "CLOSED")

\* a breaker that was OPEN with its timeout still running when the failures
\* stopped, and has been closed by the trial calls
C37_Witness ==
    /\ cb.state = "CLOSED"
    /\ last_op = "success"
    /\ prev.cb.state = "HALF_OPEN"
    /\ prev.admitted_in = "HALF_OPEN"
    /\ now > MaxTime
    /\ now = cb.last_failure_time + recovery_timeout
    /\ success_threshold > 1

\* the positions of the log where the rate limiter was acquired
Acquires == {i \in 1..Len(log) : log[i].ev = "acquire"}

\* C38: a _request call that reaches the network acquires the rate limiter
\* exactly once, before its first attempt, however many attempts follow.
C38_OneAcquirePerRequest ==
    /\ Cardinality(Acquires) <= 1
    /\ \A i \in 1..Len(log) :
          log[i].ev = "transport" => \E j \in Acquires : j < i

\* a call that used every retry
C38_Witness ==
    /\ Done
    /\ max_retries = MaxRetries
    /\ Len(Transports) = MaxRetries + 1
    /\ Cardinality(Acquires) = 1

\* C39: a service returned by the products, sellers or brands accessor is
\* bound to the transport that is open now, also after close() and open():
\* never to a transport that close() has released.
C39_ServiceUsesTheOpenTransport ==
    (client.last_op \in ServiceNames /\ client.raised = "None")
        => /\ client.returned = client.fields.http_client
           /\ client.fields.transports[client.returned] = 0

\* C40: the outcome of a call that was admitted while the breaker was
\* CLOSED and completes when the breaker is OPEN or HALF_OPEN changes
\* neither the state, the counters nor the last-failure timestamp; the
\* success counter advances and the breaker reopens only by calls admitted
\* while HALF_OPEN.
C40_StaleOutcomesAreIgnored ==
    ( /\ last_op \in {"success", "failure"}
      /\ prev.admitted_in = "CLOSED"
      /\ prev.cb.state \in {"OPEN", "HALF_OPEN"} )
        => cb = prev.cb

====
